---- MODULE Spec2Model ----
(***************************************************************************)
(* EventLedger: webhook ingestion and subscription lifecycle engine.       *)
(*                                                                         *)
(* The model follows src/app/services.py, src/app/models.py and the parts  *)
(* of src/app/api.py that services depend on.  The database is a record of *)
(* four tables (customers, subscriptions, payments, webhook events) plus   *)
(* the process-wide METRICS counters.  Every service function is a pure    *)
(* operator from a database value to a result (the new database value, the *)
(* exception raised if any, the value returned); the actions of Spec apply *)
(* one whole service call each, the actions of SpecConc interleave the     *)
(* steps of process_webhook of several requests that share the database.   *)
(*                                                                         *)
(* Conventions.  Rows are numbered as the autoincrement primary key does:  *)
(* row i of a table has id i.  NULL (Python None) of a timestamp column is *)
(* None; of a string column, NoMessage.  The opaque tokens                 *)
(* cus_<16 hex> / sub_<16 hex> are modelled by the id of the row they were *)
(* generated for (a fresh, unique value).  Columns that are only written   *)
(* and never read by the code (created_at, updated_at, received_at,        *)
(* processed_at, plan_id, amount, currency, provider_invoice_id) are left  *)
(* out.  A webhook payload never carries payment_id, so that               *)
(* provider_payment_id is the id of the event that wrote the payment       *)
(* (src/app/services.py:132).                                              *)
(***************************************************************************)
EXTENDS Integers, Sequences, FiniteSets, TLC

VARIABLES customers, subscriptions, payments, webhook_events, METRICS, now, ops, requests,
          env, windows, response

vars == <<customers, subscriptions, payments, webhook_events, METRICS, now, ops, requests,
          env, windows, response>>

\* The process environment read at start-up, the rate-limit windows of the
\* gatekeeper and the last response of the webhook endpoint.
gate == <<env, windows, response>>

(***************************************************************************)
(* Bounds of the model.                                                    *)
(***************************************************************************)
\* calls of the service API in one behaviour of Spec
MaxOps == 5
\* subscriptions created in one behaviour
MaxSubs == 2
\* concurrent webhook requests started in one behaviour of SpecConc
MaxRequests == 3

(***************************************************************************)
(* Program constants.                                                      *)
(***************************************************************************)
WEBHOOK_MAX_SKEW_SECONDS == 300
RETRY_BASE_SECONDS == 300
RETRY_CAP_SECONDS == 3600
ATTENTION_THRESHOLD == 3
GRACE_SECONDS == 86400
DEFAULT_RETRY_LIMIT == 50
DEFAULT_RATE_LIMIT_PER_MINUTE == 120
RATE_WINDOW_SECONDS == 60

None == -1
NoMessage == "None"
Missing == 0

(***************************************************************************)
(* Input domains.                                                          *)
(***************************************************************************)
Providers == {"test", "stripe"}
\* event ids and e-mail addresses, in the order in which new ones are first used
EventIds == <<"evt_1", "evt_2">>
Emails == <<"x@y.com", "z@y.com">>
\* amounts by which the clock advances between two calls
TickSteps == {86400}
\* current_period_end values a payload carries (None: the field is absent)
PeriodEnds == {None, 300}

(***************************************************************************)
(* Values.                                                                 *)
(***************************************************************************)
\* The database and the counters as one value, as a session sees them.
DB == [customers |-> customers, subscriptions |-> subscriptions, payments |-> payments,
       webhook_events |-> webhook_events, METRICS |-> METRICS]

\* The outcome of a service call: the exception raised ("" when it returns),
\* its message, the value returned and the database it leaves committed.
Result(raised, msg, ret, db) == [raised |-> raised, msg |-> msg, ret |-> ret, db |-> db]

Min(a, b) == IF a <= b THEN a ELSE b

\* The first row of a table that satisfies a test, 0 when there is none
\* (session.exec(statement).first()).
First(rows) == IF rows = {} THEN 0 ELSE CHOOSE i \in rows : \A j \in rows : i <= j

\* The rows of a set in ascending id order (ORDER BY id ASC).
RECURSIVE Ascending(_)
Ascending(rows) ==
    IF rows = {} THEN <<>>
    ELSE LET i == First(rows) IN <<i>> \o Ascending(rows \ {i})

\* No LIMIT.
LimitIgnored(seq, n) == seq

\* The first n elements of a sequence (LIMIT n).
Limit(seq, n) == SubSeq(seq, 1, Min(Len(seq), n))

(***************************************************************************)
(* Webhook signing (src/app/api.py).  HMAC-SHA256 is modelled as the       *)
(* injective function of its key and its message it is taken to be.        *)
(***************************************************************************)
\* A JSON value of the secrets mapping: a string, or an object with the
\* members current (a string), previous (a list of strings) and keys (an
\* object of strings).
JStr(value) == [type |-> "str", value |-> value]

JDict(current, previous, keys) ==
    [type |-> "dict", current |-> current, previous |-> previous, keys |-> keys]

\* str(v): a string is itself, an object is its printed form.
PyStr(v) == IF v.type = "str" THEN v.value ELSE ToString(v)

DEFAULT_WEBHOOK_SECRETS ==
    [p \in {"stripe", "mercadopago", "test"} |->
        JStr(CASE p = "stripe" -> "stripe_secret_here"
               [] p = "mercadopago" -> "mp_secret_here"
               [] OTHER -> "test_secret")]

\* raw: WEBHOOK_SECRETS_JSON, unset or holding a JSON object.
load_webhook_secrets(raw) ==
    IF ~raw.set THEN DEFAULT_WEBHOOK_SECRETS
    ELSE [k \in DOMAIN raw.value |-> JStr(PyStr(raw.value[k]))]

WEBHOOK_SECRETS == load_webhook_secrets(env.WEBHOOK_SECRETS_JSON)

\* No X-Webhook-Key-Id header.
NoKeyId == ""

\* The elements of a sequence in order, each kept at its first occurrence.
RECURSIVE Deduped(_, _)
Deduped(candidates, seen) ==
    IF candidates = <<>> THEN <<>>
    ELSE IF Head(candidates) \in seen THEN Deduped(Tail(candidates), seen)
    ELSE <<Head(candidates)>> \o Deduped(Tail(candidates), seen \cup {Head(candidates)})

get_secret_candidates(provider, key_id) ==
    LET secrets == WEBHOOK_SECRETS
    IN  IF provider \notin DOMAIN secrets THEN <<>>
        ELSE LET provider_cfg == secrets[provider]
             IN  IF provider_cfg.type = "str" THEN <<provider_cfg.value>>
                 ELSE IF provider_cfg.type # "dict" THEN <<>>
                 ELSE Deduped((IF key_id # NoKeyId /\ key_id \in DOMAIN provider_cfg.keys
                               THEN <<provider_cfg.keys[key_id]>> ELSE <<>>)
                              \o <<provider_cfg.current>> \o provider_cfg.previous, {})

\* The secret a sender of the provider signs with: the first candidate.
get_signing_secret(provider) == get_secret_candidates(provider, NoKeyId)[1]

Sign(secret, timestamp, body) == <<secret, timestamp, body>>

\* The two ends of the window left out.
FreshExclusive(timestamp_value, now_timestamp) ==
    LET d == now_timestamp - timestamp_value
    IN  (IF d < 0 THEN -d ELSE d) < WEBHOOK_MAX_SKEW_SECONDS

\* |now - ts| <= WEBHOOK_MAX_SKEW_SECONDS
Fresh(timestamp_value, now_timestamp) ==
    LET d == now_timestamp - timestamp_value
    IN  ~((IF d < 0 THEN -d ELSE d) > WEBHOOK_MAX_SKEW_SECONDS)

\* What validate_webhook_signature hands to process_webhook for a request
\* that it accepts: the body, the signature header and the parsed timestamp.
Verified(provider, body, timestamp) ==
    [raw_body |-> body,
     signature |-> Sign(get_signing_secret(provider), timestamp, body),
     timestamp |-> timestamp]

(***************************************************************************)
(* Event handlers (src/app/services.py).                                   *)
(***************************************************************************)
\* dt.datetime for an epoch number, utcnow() when the field is absent.
parse_period_end(value, t) == IF value = None THEN t ELSE value

get_customer_by_provider_id(db, provider_customer_id) ==
    First({c \in DOMAIN db.customers :
              db.customers[c].provider_customer_id = provider_customer_id})

get_subscription_by_provider_id(db, provider_subscription_id) ==
    First({s \in DOMAIN db.subscriptions :
              db.subscriptions[s].provider_subscription_id = provider_subscription_id})

\* The stale-event branch of both handlers: the event is marked ignored.
StaleIgnored(db, e) ==
    [db EXCEPT !.webhook_events[e].processing_status = "ignored",
               !.webhook_events[e].error_message = "stale event ignored"]

NewPayment(db, e, c, s, status) ==
    [customer_id |-> c, subscription_id |-> s, status |-> status,
     provider_payment_id |-> db.webhook_events[e].event_id,
     provider |-> db.webhook_events[e].provider]

\* Every status turned active by a payment.
PaymentSucceededActivatesAlways(sub, period_end) ==
    [sub EXCEPT !.status = "active",
                !.canceled_at = None,
                !.expired_at = None,
                !.current_period_end = period_end,
                !.past_due_since = None,
                !.access_revoked = FALSE]

\* The subscription as payment.succeeded leaves it.
PaymentSucceededUpdate(sub, period_end) ==
    [sub EXCEPT !.status = IF sub.status \in {"pending_activation", "past_due"}
                           THEN "active" ELSE sub.status,
                !.canceled_at = None,
                !.expired_at = None,
                !.current_period_end = period_end,
                !.past_due_since = None,
                !.access_revoked = FALSE]

\* past_due entered without its date.
PaymentFailedNoDate(sub, t) ==
    IF sub.status = "active" THEN [sub EXCEPT !.status = "past_due"] ELSE sub

\* A failed invoice of a past_due subscription starting the grace period anew.
PaymentFailedRestamps(sub, t) ==
    IF sub.status \in {"active", "past_due"}
    THEN [sub EXCEPT !.status = "past_due", !.past_due_since = t]
    ELSE sub

\* The subscription as invoice.payment_failed leaves it.
PaymentFailedUpdate(sub, t) ==
    IF sub.status = "active"
    THEN [sub EXCEPT !.status = "past_due", !.past_due_since = t]
    ELSE sub

\* The stale-event guard left out.
IsStaleNever(period_end, sub) == FALSE

\* The stale-event guard turning away an equal period end as well.
IsStaleInclusive(period_end, sub) == period_end <= sub.current_period_end

\* period_end < subscription.current_period_end
IsStale(period_end, sub) == period_end < sub.current_period_end

\* The owner of the subscription not compared with the customer.
WrongOwnerUnchecked(sub, customer_id) == FALSE

\* subscription.customer_id != customer_id
WrongOwner(sub, customer_id) == sub.customer_id # customer_id

\* The part the two typed handlers share: validation of the payload, the
\* look-ups, the stale-event guard, then the update and the Payment row.
\* An exception is raised before anything is written.
HandleTyped(db, e, payload, t, succeeded) ==
    IF payload.provider_customer_id = Missing \/ payload.provider_subscription_id = Missing
    THEN Result("ValidationError", "field required", 0, db)
    ELSE
    LET c == get_customer_by_provider_id(db, payload.provider_customer_id)
        period_end == parse_period_end(payload.current_period_end, t)
        s == get_subscription_by_provider_id(db, payload.provider_subscription_id)
    IN  IF c = 0
        THEN Result("InvalidPayloadError", "provider_customer_id not found", 0, db)
        ELSE IF s = 0
        THEN Result("InvalidPayloadError", "provider_subscription_id not found", 0, db)
        ELSE IF WrongOwner(db.subscriptions[s], c)
        THEN Result("InvalidPayloadError",
                    "provider_subscription_id belongs to a different customer_id", 0, db)
        ELSE IF IsStale(period_end, db.subscriptions[s])
        THEN Result("", "", 0, StaleIgnored(db, e))
        ELSE Result("", "", 0,
               [db EXCEPT
                  !.subscriptions[s] =
                      IF succeeded THEN PaymentSucceededUpdate(@, period_end)
                      ELSE PaymentFailedUpdate(@, t),
                  !.payments = Append(@, NewPayment(db, e, c, s,
                                   IF succeeded THEN "approved" ELSE "refused"))])

handle_payment_succeeded(db, e, payload, t) == HandleTyped(db, e, payload, t, TRUE)

handle_invoice_payment_failed(db, e, payload, t) == HandleTyped(db, e, payload, t, FALSE)

\* The event left as it was inserted.
handle_unknown_event_unmarked(db, e) == Result("", "", 0, db)

handle_unknown_event(db, e) ==
    Result("", "", 0, [db EXCEPT !.webhook_events[e].processing_status = "ignored"])

\* The status dispatch_event leaves on the event after a typed handler
\* returned: the assignment of line 202 is unconditional.
StatusAfterHandler(status_set_by_handler) == "processed"

dispatch_event(db, e, t) ==
    LET event == db.webhook_events[e]
        payload_data == event.payload_raw.payload_json
    IN  IF event.event_type \notin {"payment.succeeded", "invoice.payment_failed"}
        THEN handle_unknown_event(db, e)
        ELSE LET r == IF event.event_type = "payment.succeeded"
                      THEN handle_payment_succeeded(db, e, payload_data, t)
                      ELSE handle_invoice_payment_failed(db, e, payload_data, t)
             IN  IF r.raised # "" THEN r
                 ELSE [r EXCEPT !.db.webhook_events[e].processing_status =
                                     StatusAfterHandler(@)]

(***************************************************************************)
(* Failure marking and the idempotent dispatcher.                          *)
(***************************************************************************)
Bump(db, counter) == [db EXCEPT !.METRICS[counter] = @ + 1]

\* The delay without its cap.
RetryDelayUncapped(attempt_count) == RETRY_BASE_SECONDS * attempt_count

\* min(300 * attempt_count, 3600)
RetryDelay(attempt_count) == Min(RETRY_BASE_SECONDS * attempt_count, RETRY_CAP_SECONDS)

\* The flag never raised.
NeedsAttentionNever(attempt_count) == FALSE

\* The flag raised one attempt late.
NeedsAttentionAbove(attempt_count) == attempt_count > ATTENTION_THRESHOLD

\* event.attempt_count >= 3
NeedsAttention(attempt_count) == attempt_count >= ATTENTION_THRESHOLD

mark_failed(db, e, message, t) ==
    LET event == db.webhook_events[e]
        attempt_count == event.attempt_count + 1
    IN  Bump([db EXCEPT !.webhook_events[e] =
                  [event EXCEPT !.attempt_count = attempt_count,
                                !.next_retry_at = t + RetryDelay(attempt_count),
                                !.needs_attention = NeedsAttention(attempt_count),
                                !.processing_status = "failed",
                                !.error_message = message]],
             "webhook_failed")

\* The error message kept.
ClearFailureKeepsMessage(db, e) ==
    [db EXCEPT !.webhook_events[e].next_retry_at = None,
               !.webhook_events[e].needs_attention = FALSE]

\* After a re-dispatch that returned: next_retry_at = None,
\* needs_attention = False, error_message = None.
ClearFailure(db, e) ==
    [db EXCEPT !.webhook_events[e].next_retry_at = None,
               !.webhook_events[e].needs_attention = FALSE,
               !.webhook_events[e].error_message = NoMessage]

get_existing_event(db, provider, event_id) ==
    First({e \in DOMAIN db.webhook_events :
              /\ db.webhook_events[e].provider = provider
              /\ db.webhook_events[e].event_id = event_id})

\* METRICS update after a dispatch that returned.
CountOutcome(db, e) ==
    IF db.webhook_events[e].processing_status = "ignored"
    THEN Bump(db, "webhook_ignored")
    ELSE Bump(db, "webhook_processed")

\* The exception raised with the event left unmarked.
FailAndRaiseUnmarked(r, e, t) == Result(r.raised, r.msg, e, r.db)

\* A dispatch that raised: the event is marked failed and committed, the
\* exception goes on to the caller.
FailAndRaise(r, e, t) == Result(r.raised, r.msg, e, mark_failed(r.db, e, r.msg, t))

\* The timestamp check left out, the signature check alone.
ReplayMismatchSignatureOnly(event, verified) ==
    IF verified.signature # event.signature THEN "replay signature mismatch" ELSE ""

\* The replay checks at the head of _handle_existing_event: the message of
\* the ReplayAttackError to raise, "" when the delivery matches the row.
ReplayMismatch(event, verified) ==
    IF verified.timestamp # event.signature_timestamp THEN "replay timestamp mismatch"
    ELSE IF verified.signature # event.signature THEN "replay signature mismatch"
    ELSE ""

\* processed left out of the statuses answered as a replay.
IsTerminalIgnoredOnly(processing_status) == processing_status = "ignored"

\* event.processing_status in (processed, ignored)
IsTerminal(processing_status) == processing_status \in {"processed", "ignored"}

handle_existing_event(db, e, verified, t) ==
    LET event == db.webhook_events[e]
        mismatch == ReplayMismatch(event, verified)
    IN  IF mismatch # ""
        THEN Result("ReplayAttackError", mismatch, e, mark_failed(db, e, mismatch, t))
        ELSE IF IsTerminal(event.processing_status)
        THEN Result("", "", e, Bump(db, "webhook_replayed"))
        ELSE IF event.processing_status = "failed"
        THEN LET r == dispatch_event(db, e, t)
             IN  IF r.raised # "" THEN FailAndRaise(r, e, t)
                 ELSE Result("", "", e, ClearFailure(r.db, e))
        ELSE Result("", "", e, db)

\* The row process_webhook inserts for a first delivery.
NewEvent(provider, webhook, verified) ==
    [provider |-> provider,
     event_id |-> webhook.event_id,
     event_type |-> webhook.event_type,
     payload_raw |-> verified.raw_body,
     signature |-> verified.signature,
     signature_timestamp |-> verified.timestamp,
     attempt_count |-> 1,
     next_retry_at |-> None,
     needs_attention |-> FALSE,
     processing_status |-> "received",
     error_message |-> NoMessage]

\* process_webhook from the flush on: the row is in the session as row e.
DispatchNew(db, e, t) ==
    LET r == dispatch_event(db, e, t)
    IN  IF r.raised # "" THEN FailAndRaise(r, e, t)
        ELSE Result("", "", e,
               [CountOutcome(r.db, e) EXCEPT !.webhook_events[e].next_retry_at = None,
                                             !.webhook_events[e].needs_attention = FALSE])

process_webhook(db, provider, webhook, verified, t) ==
    LET existing == get_existing_event(db, provider, webhook.event_id)
    IN  IF existing # 0
        THEN handle_existing_event(db, existing, verified, t)
        ELSE DispatchNew([db EXCEPT !.webhook_events =
                              Append(@, NewEvent(provider, webhook, verified))],
                         Len(db.webhook_events) + 1, t)

(***************************************************************************)
(* Inspection, retry sweep and admin reprocess.                            *)
(***************************************************************************)
get_webhook_event(db, event_id, provider) ==
    LET events == {e \in DOMAIN db.webhook_events :
                      /\ db.webhook_events[e].event_id = event_id
                      /\ (provider # "" => db.webhook_events[e].provider = provider)}
    IN  IF events = {} THEN Result("NotFoundError", "not found", 0, db)
        ELSE IF Cardinality(events) > 1
        THEN Result("InvalidPayloadError", "multiple events found; specify provider", 0, db)
        ELSE Result("", "", First(events), db)

\* The status condition left out of the query.
RetryEligibleAnyStatus(event, t) ==
    /\ event.needs_attention = FALSE
    /\ (event.next_retry_at = None \/ event.next_retry_at <= t)

\* Only the rows without a retry time selected.
RetryEligibleUnscheduled(event, t) ==
    /\ event.processing_status = "failed"
    /\ event.needs_attention = FALSE
    /\ event.next_retry_at = None

\* WHERE processing_status = failed AND needs_attention = false
\*   AND (next_retry_at IS NULL OR next_retry_at <= now)
RetryEligible(event, t) ==
    /\ event.processing_status = "failed"
    /\ event.needs_attention = FALSE
    /\ (event.next_retry_at = None \/ event.next_retry_at <= t)

RetryCandidates(db, limit, t) ==
    Limit(Ascending({e \in DOMAIN db.webhook_events :
                        RetryEligible(db.webhook_events[e], t)}), limit)

\* One turn of the loop of retry_failed_webhooks.
RetryOne(db, e, t) ==
    LET r == dispatch_event(db, e, t)
    IN  IF r.raised # "" THEN Result(r.raised, r.msg, e, mark_failed(r.db, e, r.msg, t))
        ELSE Result("", "", e, ClearFailure(CountOutcome(r.db, e), e))

\* The loop over the selected events; acc holds the database so far and the
\* two lists of ids the sweep reports.
RECURSIVE RetryLoop(_, _, _)
RetryLoop(acc, events, t) ==
    IF events = <<>> THEN acc
    ELSE LET e == Head(events)
             r == RetryOne(acc.db, e, t)
         IN  RetryLoop([db |-> r.db,
                        processed_ids |-> IF r.raised = "" THEN Append(acc.processed_ids, e)
                                          ELSE acc.processed_ids,
                        failed_ids |-> IF r.raised # "" THEN Append(acc.failed_ids, e)
                                       ELSE acc.failed_ids],
                       Tail(events), t)

retry_failed_webhooks(db, limit, t) ==
    LET events == RetryCandidates(db, limit, t)
        out == RetryLoop([db |-> db, processed_ids |-> <<>>, failed_ids |-> <<>>], events, t)
    IN  Result("", "",
               [checked |-> Len(events), processed_ids |-> out.processed_ids,
                failed_ids |-> out.failed_ids],
               out.db)

reprocess_webhook_event(db, event_id, t) ==
    LET found == get_webhook_event(db, event_id, "")
    IN  IF found.raised # "" THEN found
        ELSE Result("", "", found.ret, RetryOne(db, found.ret, t).db)

(***************************************************************************)
(* Subscriptions: creation, the flag, the two sweeps.                      *)
(***************************************************************************)
get_or_create_customer_by_email(db, customer_email) ==
    LET c == First({i \in DOMAIN db.customers : db.customers[i].email = customer_email})
    IN  IF c # 0 THEN [customer |-> c, db |-> db]
        ELSE [customer |-> Len(db.customers) + 1,
              db |-> [db EXCEPT !.customers =
                         Append(@, [email |-> customer_email,
                                    provider_customer_id |-> Missing])]]

\* The token is generated once; a customer that has one keeps it.
ensure_provider_customer_id(db, c) ==
    IF db.customers[c].provider_customer_id # Missing THEN db
    ELSE [db EXCEPT !.customers[c].provider_customer_id = c]

NewSubscription(db, c, t) ==
    [customer_id |-> c,
     status |-> "pending_activation",
     current_period_end |-> t,
     cancel_at_period_end |-> FALSE,
     past_due_since |-> None,
     canceled_at |-> None,
     expired_at |-> None,
     provider_subscription_id |-> Len(db.subscriptions) + 1,
     access_revoked |-> FALSE]

\* subscription_in: customer_id (Missing when absent) and customer_email
\* ("" when absent).
create_subscription(db, subscription_in, t) ==
    IF subscription_in.customer_id = Missing /\ subscription_in.customer_email = ""
    THEN Result("InvalidPayloadError", "customer_id or customer_email is required", 0, db)
    ELSE IF subscription_in.customer_id # Missing
            /\ subscription_in.customer_id \notin DOMAIN db.customers
    THEN Result("NotFoundError", "Customer not found", 0, db)
    ELSE LET got == IF subscription_in.customer_id # Missing
                    THEN [customer |-> subscription_in.customer_id, db |-> db]
                    ELSE get_or_create_customer_by_email(db, subscription_in.customer_email)
             db1 == ensure_provider_customer_id(got.db, got.customer)
         IN  Result("", "", Len(db.subscriptions) + 1,
                    [db1 EXCEPT !.subscriptions =
                        Append(@, NewSubscription(db1, got.customer, t))])

set_subscription_cancel_at_period_end(db, subscription_id, flag) ==
    IF subscription_id \notin DOMAIN db.subscriptions
    THEN Result("NotFoundError", "Subscription not found", 0, db)
    ELSE Result("", "", subscription_id,
                [db EXCEPT !.subscriptions[subscription_id].cancel_at_period_end = flag])

\* The last second of the grace period left out.
GraceElapsedExclusive(sub, t) ==
    /\ sub.status = "past_due"
    /\ sub.past_due_since # None
    /\ sub.past_due_since < t - GRACE_SECONDS

\* past_due, past_due_since set and not later than now - 1 day
GraceElapsed(sub, t) ==
    /\ sub.status = "past_due"
    /\ sub.past_due_since # None
    /\ ~(sub.past_due_since > t - GRACE_SECONDS)

Cancel(sub, t) == [sub EXCEPT !.status = "canceled", !.canceled_at = t, !.access_revoked = TRUE]

Expire(sub, t) == [sub EXCEPT !.status = "expired", !.expired_at = t]

enforce_grace_period(db, t) ==
    LET hit == {s \in DOMAIN db.subscriptions : GraceElapsed(db.subscriptions[s], t)}
    IN  Result("", "", Ascending(hit),
               [db EXCEPT !.subscriptions =
                   [s \in DOMAIN @ |-> IF s \in hit THEN Cancel(@[s], t) ELSE @[s]]])

\* A period that ends now left out.
PeriodElapsedExclusive(sub, t) == sub.status = "active" /\ sub.current_period_end < t

\* status = active AND current_period_end <= now
PeriodElapsed(sub, t) == sub.status = "active" /\ sub.current_period_end <= t

expire_subscriptions(db, t) ==
    LET hit == {s \in DOMAIN db.subscriptions : PeriodElapsed(db.subscriptions[s], t)}
    IN  Result("", "",
               [expired_ids |-> Ascending({s \in hit : ~db.subscriptions[s].cancel_at_period_end}),
                canceled_ids |-> Ascending({s \in hit : db.subscriptions[s].cancel_at_period_end})],
               [db EXCEPT !.subscriptions =
                   [s \in DOMAIN @ |->
                       IF s \notin hit THEN @[s]
                       ELSE IF @[s].cancel_at_period_end THEN Cancel(@[s], t)
                       ELSE Expire(@[s], t)]])

(***************************************************************************)
(* Inputs of the calls.                                                    *)
(***************************************************************************)
Range(seq) == {seq[i] : i \in DOMAIN seq}

\* The values of a sequence of names that are in use, and the next new one:
\* ids and addresses are opaque, so a new one is always the first unused.
UsedOrNext(names, used) ==
    {names[i] : i \in {j \in DOMAIN names : \A k \in 1..(j - 1) : names[k] \in used}}

Payload(c, s, pe) ==
    [provider_customer_id |-> c, provider_subscription_id |-> s, current_period_end |-> pe]

\* payload_json of a typed event: the customer token (Missing: the field is
\* absent), the subscription token, current_period_end.
Payloads ==
    {Payload(cs[1], cs[2], pe) :
        cs \in {<<Missing, 1>>, <<1, 1>>, <<1, 2>>, <<2, 1>>}, pe \in PeriodEnds}

\* The payload sent with an event of a type no handler is registered for.
EmptyPayload == Payload(Missing, Missing, None)

Body(id, ty, pl) == [event_id |-> id, event_type |-> ty, payload_json |-> pl]

\* Every request body of the domain that parses as WebhookEventIn.
Bodies ==
    {Body(id, ty, pl) : id \in Range(EventIds),
                        ty \in {"payment.succeeded", "invoice.payment_failed"},
                        pl \in Payloads}
    \cup {Body(id, "customer.updated", EmptyPayload) : id \in Range(EventIds)}

\* The bodies the providers send in the runs explored: payments of the first
\* customer for the first subscription with and without a period end, one
\* for a customer token that is unknown or not the subscription's owner, a
\* failed invoice, and an event of another type.
SentBodies ==
    {Body(id, "payment.succeeded", pl) :
        id \in Range(EventIds),
        pl \in {Payload(1, 1, 300), Payload(1, 1, None), Payload(2, 1, 300)}}
    \cup {Body(id, "invoice.payment_failed", Payload(1, 1, 300)) : id \in Range(EventIds)}
    \cup {Body(id, "customer.updated", EmptyPayload) : id \in Range(EventIds)}

\* WebhookEventIn.model_validate_json(verified.raw_body)
ParseWebhook(body) == [event_id |-> body.event_id, event_type |-> body.event_type,
                       payload_json |-> body.payload_json]

\* Timestamps the gatekeeper accepts when the clock reads t.
Timestamps(t) == {ts \in {t - WEBHOOK_MAX_SKEW_SECONDS, t, t + WEBHOOK_MAX_SKEW_SECONDS} :
                     ts >= 0 /\ Fresh(ts, t)}

SubscriptionIns ==
    {[customer_id |-> k, customer_email |-> ""] : k \in Missing..MaxSubs}
    \cup {[customer_id |-> Missing, customer_email |-> e] : e \in Range(Emails)}

RetryLimits == {1, DEFAULT_RETRY_LIMIT}

(***************************************************************************)
(* The system run call by call: every action is one whole service call.    *)
(***************************************************************************)
\* The addresses requests come from.
ClientIps == {"10.0.0.1", "10.0.0.2"}

\* The environment: WEBHOOK_SECRETS_JSON (unset, or a JSON object),
\* WEBHOOK_IP_ALLOWLIST (the set of its entries) and
\* WEBHOOK_RATE_LIMIT_PER_MINUTE.
Env(secrets_json, allowlist, rate_limit) ==
    [WEBHOOK_SECRETS_JSON |-> secrets_json,
     WEBHOOK_IP_ALLOWLIST |-> allowlist,
     WEBHOOK_RATE_LIMIT_PER_MINUTE |-> rate_limit]

Unset == [set |-> FALSE]

DefaultEnv == Env(Unset, {}, DEFAULT_RATE_LIMIT_PER_MINUTE)

\* _webhook_request_windows, a defaultdict: a key not yet used holds an
\* empty deque.
NoWindows == [k \in Providers \X ClientIps |-> <<>>]

\* No request answered yet.
NoResponse == [status_code |-> 0, detail |-> ""]

ZeroMetrics == [k \in {"webhook_processed", "webhook_failed", "webhook_ignored",
                       "webhook_replayed"} |-> 0]

Init ==
    /\ customers = <<>>
    /\ subscriptions = <<>>
    /\ payments = <<>>
    /\ webhook_events = <<>>
    /\ METRICS = ZeroMetrics
    /\ now = 0
    /\ ops = 0
    /\ requests = <<>>
    /\ env = DefaultEnv
    /\ windows = NoWindows
    /\ response = NoResponse

\* The call's result is committed.
Commit(db) ==
    /\ customers' = db.customers
    /\ subscriptions' = db.subscriptions
    /\ payments' = db.payments
    /\ webhook_events' = db.webhook_events
    /\ METRICS' = db.METRICS

\* A call that changes the database or the counters is counted; one that
\* changes nothing leaves the state as it is.
Call(r) ==
    /\ ops < MaxOps
    /\ r.db # DB
    /\ Commit(r.db)
    /\ ops' = ops + 1
    /\ UNCHANGED <<now, requests, gate>>

\* POST /v1/webhooks/{provider}, for a request the gatekeeper accepts.
WebhookOutcome(db, provider, body, ts, t) ==
    process_webhook(db, provider, ParseWebhook(body), Verified(provider, body, ts), t)

\* A request is signed when it is sent and arrives at once.
SentTimestamps(t) == {t}

Deliver ==
    \E body \in SentBodies, ts \in SentTimestamps(now) :
        /\ body.event_id \in
              UsedOrNext(EventIds, {webhook_events[e].event_id : e \in DOMAIN webhook_events})
        /\ Fresh(ts, now)
        /\ Call(WebhookOutcome(DB, "test", body, ts, now))

CreateSubscription ==
    \E subscription_in \in SubscriptionIns :
        /\ Len(subscriptions) < MaxSubs
        /\ subscription_in.customer_email \in
              {""} \cup UsedOrNext(Emails, {customers[c].email : c \in DOMAIN customers})
        /\ Call(create_subscription(DB, subscription_in, now))

RetryFailedWebhooks ==
    \E limit \in RetryLimits : Call(retry_failed_webhooks(DB, limit, now))

ReprocessWebhookEvent ==
    \E event_id \in Range(EventIds) : Call(reprocess_webhook_event(DB, event_id, now))

EnforceGracePeriod == Call(enforce_grace_period(DB, now))

ExpireSubscriptions == Call(expire_subscriptions(DB, now))

SetCancelAtPeriodEnd ==
    \E subscription_id \in 1..MaxSubs, flag \in BOOLEAN :
        Call(set_subscription_cancel_at_period_end(DB, subscription_id, flag))

\* Time passes between two calls.
Tick ==
    \E d \in TickSteps :
        /\ ops < MaxOps
        /\ ops' = ops + 1
        /\ now' = now + d
        /\ UNCHANGED <<customers, subscriptions, payments, webhook_events, METRICS, requests,
                       gate>>

Next ==
    \/ Deliver
    \/ CreateSubscription
    \/ RetryFailedWebhooks
    \/ ReprocessWebhookEvent
    \/ EnforceGracePeriod
    \/ ExpireSubscriptions
    \/ SetCancelAtPeriodEnd
    \/ Tick

Spec == Init /\ [][Next]_vars

\* The same without the admin endpoint: webhook deliveries, retry sweeps,
\* subscription creation, the flag and the subscription sweeps.
NextWebhooks ==
    \/ Deliver
    \/ CreateSubscription
    \/ RetryFailedWebhooks
    \/ EnforceGracePeriod
    \/ ExpireSubscriptions
    \/ SetCancelAtPeriodEnd
    \/ Tick

SpecWebhooks == Init /\ [][NextWebhooks]_vars

(***************************************************************************)
(* Invoices of one subscription over several days: a payment, then failed  *)
(* invoices, each a new event, with the grace-period sweep in between.      *)
(***************************************************************************)
InvoiceEventIds == <<"evt_1", "evt_2", "evt_3">>

\* Payments and failed invoices of the first customer's first subscription.
InvoiceBodies ==
    {Body(id, "payment.succeeded", Payload(1, 1, pe)) :
        id \in Range(InvoiceEventIds), pe \in PeriodEnds}
    \cup {Body(id, "invoice.payment_failed", Payload(1, 1, 300)) :
             id \in Range(InvoiceEventIds)}

DeliverInvoice ==
    \E body \in InvoiceBodies, ts \in SentTimestamps(now) :
        /\ body.event_id \in
              UsedOrNext(InvoiceEventIds,
                         {webhook_events[e].event_id : e \in DOMAIN webhook_events})
        /\ Fresh(ts, now)
        /\ Call(WebhookOutcome(DB, "test", body, ts, now))

NextInvoices ==
    \/ DeliverInvoice
    \/ CreateSubscription
    \/ EnforceGracePeriod
    \/ Tick

SpecInvoices == Init /\ [][NextInvoices]_vars

(***************************************************************************)
(* The retry sweep run again and again while time passes.  Deliveries and  *)
(* subscription creations come as before; a sweep runs whenever it has a    *)
(* row to take, and the clock advances while a failed, unflagged row waits   *)
(* for its next_retry_at.                                                    *)
(***************************************************************************)
\* retry_failed_webhooks_endpoint, called when some row is due.
RetrySweep ==
    \E limit \in RetryLimits :
        LET r == retry_failed_webhooks(DB, limit, now)
        IN  /\ r.ret.checked > 0
            /\ Commit(r.db)
            /\ UNCHANGED <<now, ops, requests, gate>>

\* The clock advances while a failed, unflagged row is not yet due.
TimePasses ==
    \E d \in TickSteps :
        /\ \E e \in DOMAIN webhook_events :
              /\ webhook_events[e].processing_status = "failed"
              /\ ~webhook_events[e].needs_attention
              /\ webhook_events[e].next_retry_at # None
              /\ webhook_events[e].next_retry_at > now
        /\ now' = now + d
        /\ UNCHANGED <<customers, subscriptions, payments, webhook_events, METRICS, ops,
                       requests, gate>>

NextLive ==
    \/ Deliver
    \/ CreateSubscription
    \/ RetrySweep
    \/ TimePasses

\* RetrySweep can take a step that changes the state: ENABLED <<RetrySweep>>_vars
\* as a predicate of the state (the action sets the database to the sweep's
\* outcome and leaves the other variables).
SweepEnabled ==
    \E limit \in RetryLimits :
        LET r == retry_failed_webhooks(DB, limit, now)
        IN  r.ret.checked > 0 /\ r.db # DB

\* The sweep is run repeatedly and time advances: weak fairness of
\* TimePasses and of RetrySweep, the latter written out with SweepEnabled.
SpecLive ==
    /\ Init /\ [][NextLive]_vars
    /\ WF_vars(TimePasses)
    /\ ([]<>(~SweepEnabled) \/ []<><<RetrySweep>>_vars)

(***************************************************************************)
(* Webhook requests in flight together, on instances that share the        *)
(* database.  process_webhook runs in three steps, between which the other *)
(* requests may run: the look-up of the row (line 311), the flush of the   *)
(* insert (line 328), and the dispatch with its commit (lines 337-364).    *)
(* A flushed row is visible to its own session only until the commit.  The *)
(* rows take their ids in the order of the commits.  METRICS stands for    *)
(* the sum of the instances' counters.                                     *)
(***************************************************************************)
\* The deliveries made concurrently: one event id, from both providers,
\* with two bodies.
ConcBodies == {Body(EventIds[1], "payment.succeeded", Payload(1, 1, pe)) : pe \in PeriodEnds}

Key(q) == <<q.provider, q.body.event_id>>

\* The request's session has flushed its insert and not yet committed.
HoldsInsert(q) == q.pc = "dispatch"

\* The unique index makes an insert wait for the end of a transaction that
\* holds an uncommitted row of the same (provider, event_id).
InsertWaits(r) ==
    \E q \in DOMAIN requests : q # r /\ HoldsInsert(requests[q]) /\ Key(requests[q]) = Key(requests[r])

Receive ==
    \E provider \in Providers, body \in ConcBodies :
        /\ Len(requests) < MaxRequests
        /\ requests' = Append(requests, [provider |-> provider, body |-> body, timestamp |-> now,
                                         pc |-> "lookup", raced |-> FALSE,
                                         raised |-> "", ret |-> 0])
        /\ UNCHANGED <<customers, subscriptions, payments, webhook_events, METRICS, now, ops,
                       gate>>

\* The request ends with the outcome of a service call.
Finish(r, out, raced) ==
    /\ Commit(out.db)
    /\ requests' = [requests EXCEPT ![r].pc = "done", ![r].raced = raced,
                                    ![r].raised = out.raised, ![r].ret = out.ret]
    /\ UNCHANGED <<now, ops, gate>>

ExistingOutcome(db, q, t) ==
    handle_existing_event(db, get_existing_event(db, q.provider, q.body.event_id),
                          Verified(q.provider, q.body, q.timestamp), t)

\* Lines 311-313.
Lookup ==
    \E r \in DOMAIN requests :
        /\ requests[r].pc = "lookup"
        /\ IF get_existing_event(DB, requests[r].provider, requests[r].body.event_id) # 0
           THEN Finish(r, ExistingOutcome(DB, requests[r], now), FALSE)
           ELSE /\ requests' = [requests EXCEPT ![r].pc = "flush"]
                /\ UNCHANGED <<customers, subscriptions, payments, webhook_events, METRICS,
                               now, ops, gate>>

\* No unique constraint on (provider, event_id).
FlushConflictNever(db, q) == FALSE

\* The flush finds a committed row of the key: the unique constraint
\* uq_webhook_provider_event raises IntegrityError.
FlushConflict(db, q) == get_existing_event(db, q.provider, q.body.event_id) # 0

\* Lines 326-334.
Flush ==
    \E r \in DOMAIN requests :
        /\ requests[r].pc = "flush"
        /\ ~InsertWaits(r)
        /\ IF FlushConflict(DB, requests[r])
           THEN Finish(r, ExistingOutcome(DB, requests[r], now), TRUE)
           ELSE /\ requests' = [requests EXCEPT ![r].pc = "dispatch"]
                /\ UNCHANGED <<customers, subscriptions, payments, webhook_events, METRICS,
                               now, ops, gate>>

\* Lines 336-364.
DispatchAndCommit ==
    \E r \in DOMAIN requests :
        /\ requests[r].pc = "dispatch"
        /\ Finish(r,
                  DispatchNew([DB EXCEPT !.webhook_events =
                                  Append(@, NewEvent(requests[r].provider,
                                                     ParseWebhook(requests[r].body),
                                                     Verified(requests[r].provider,
                                                              requests[r].body,
                                                              requests[r].timestamp)))],
                              Len(webhook_events) + 1, now),
                  FALSE)

\* The subscription the deliveries are about is created at some moment.
CreateFirstSubscription ==
    /\ subscriptions = <<>>
    /\ Commit(create_subscription(DB, [customer_id |-> Missing, customer_email |-> Emails[1]],
                                  now).db)
    /\ UNCHANGED <<now, ops, requests, gate>>

NextConc ==
    \/ Receive
    \/ Lookup
    \/ Flush
    \/ DispatchAndCommit
    \/ CreateFirstSubscription

SpecConc == Init /\ [][NextConc]_vars

(***************************************************************************)
(* The same, with requests that end before their commit: the task is       *)
(* cancelled or the process dies after the flush of the insert (line 328)   *)
(* and before session.commit() (lines 352, 358, 363).  Neither except       *)
(* branch runs (they catch Exception, not CancelledError or a kill); the    *)
(* session is closed without commit and its transaction is rolled back.     *)
(***************************************************************************)
\* The transaction of a request that flushed its insert ends without commit.
Abandon ==
    \E r \in DOMAIN requests :
        /\ requests[r].pc = "dispatch"
        /\ requests' = [requests EXCEPT ![r].pc = "gone"]
        /\ UNCHANGED <<customers, subscriptions, payments, webhook_events, METRICS, now, ops,
                       gate>>

\* Requests received while the crashes are followed.
MaxInFlight == 2

NextCrash ==
    \/ Len(requests) < MaxInFlight /\ Receive
    \/ Lookup
    \/ Flush
    \/ DispatchAndCommit
    \/ Abandon
    \/ CreateFirstSubscription

SpecCrash == Init /\ [][NextCrash]_vars

(***************************************************************************)
(* Handlers of different events in flight together, on instances that      *)
(* share the database.  After the look-up and the flush of its insert, a   *)
(* first delivery runs its handler in three steps between which the other  *)
(* requests may run: the SELECTs of the customer and the subscription      *)
(* (lines 52 and 90), the flush of the handler's writes, an UPDATE of the  *)
(* columns the session changed and the INSERT of the Payment row, and the  *)
(* COMMIT (session.commit(), line 352).  The guard and the assignments of  *)
(* the handler work on the rows as they were read.                         *)
(***************************************************************************)
\* The events delivered: payments of the first subscription without and
\* with a period end, and a failed invoice.
RaceBodies ==
    {Body(EventIds[1], "payment.succeeded", Payload(1, 1, None)),
     Body(EventIds[2], "payment.succeeded", Payload(1, 1, 300)),
     Body(EventIds[2], "invoice.payment_failed", Payload(1, 1, 300))}

\* Nothing read or written yet.
Unread == <<>>

\* Each event is delivered once.
ReceiveEvent ==
    \E body \in RaceBodies :
        /\ Len(requests) < MaxRequests
        /\ \A q \in DOMAIN requests : requests[q].body.event_id # body.event_id
        /\ requests' = Append(requests, [provider |-> "test", body |-> body, timestamp |-> now,
                                         pc |-> "lookup", raced |-> FALSE,
                                         raised |-> "", ret |-> 0,
                                         seen |-> Unread, read_at |-> None,
                                         pending |-> Unread])
        /\ UNCHANGED <<customers, subscriptions, payments, webhook_events, METRICS, now, ops,
                       gate>>

\* The handler's SELECTs return the committed rows.
ReadSubscription ==
    \E r \in DOMAIN requests :
        /\ requests[r].pc = "dispatch"
        /\ requests[r].seen = Unread
        /\ requests' = [requests EXCEPT ![r].seen = DB, ![r].read_at = now]
        /\ UNCHANGED <<customers, subscriptions, payments, webhook_events, METRICS, now, ops,
                       gate>>

\* The dispatch of the request's event on the rows its session read, with
\* the row of its insert, at the time of the read.
HandlerOutcome(q) ==
    DispatchNew([q.seen EXCEPT !.webhook_events =
                    Append(@, NewEvent(q.provider, ParseWebhook(q.body),
                                       Verified(q.provider, q.body, q.timestamp)))],
                Len(q.seen.webhook_events) + 1, q.read_at)

\* The Payment rows a handler run added to those it started from.
NewPayments(seen, out) == SubSeq(out.db.payments, Len(seen.payments) + 1, Len(out.db.payments))

\* The subscriptions a handler run updates: a handler that applies its
\* event updates the subscription (updated_at at least) and adds one
\* Payment row for it.
WrittenSubscriptions(seen, out) ==
    {NewPayments(seen, out)[p].subscription_id : p \in DOMAIN NewPayments(seen, out)}

\* Row-level locking: the UPDATE of a row waits for the end of a transaction
\* that holds an uncommitted UPDATE of it.  A SELECT waits for nothing.
UpdateWaits(r) ==
    \E q \in DOMAIN requests :
        /\ q # r
        /\ requests[q].pc = "commit"
        /\ WrittenSubscriptions(requests[q].seen, requests[q].pending)
              \cap WrittenSubscriptions(requests[r].seen, HandlerOutcome(requests[r])) # {}

\* The handler runs on the rows read and its writes are flushed.
FlushHandler ==
    \E r \in DOMAIN requests :
        /\ requests[r].pc = "dispatch"
        /\ requests[r].seen # Unread
        /\ ~UpdateWaits(r)
        /\ requests' = [requests EXCEPT ![r].pc = "commit",
                                        ![r].pending = HandlerOutcome(requests[r])]
        /\ UNCHANGED <<customers, subscriptions, payments, webhook_events, METRICS, now, ops,
                       gate>>

\* UPDATE subscription SET <the columns whose value the session changed>:
\* the other columns keep the value they have in the database.
MergeRow(current, loaded, changed) ==
    [c \in DOMAIN current |-> IF changed[c] # loaded[c] THEN changed[c] ELSE current[c]]

\* COMMIT: the event row and the Payment row are appended, the updated
\* columns of the subscriptions written; the counters of the process have
\* been incremented by the run.
CommitHandler ==
    \E r \in DOMAIN requests :
        LET seen == requests[r].seen
            out == requests[r].pending
        IN  /\ requests[r].pc = "commit"
            /\ customers' = customers
            /\ subscriptions' =
                  [s \in DOMAIN subscriptions |->
                      IF s \in DOMAIN seen.subscriptions
                      THEN MergeRow(subscriptions[s], seen.subscriptions[s],
                                    out.db.subscriptions[s])
                      ELSE subscriptions[s]]
            /\ payments' = payments \o NewPayments(seen, out)
            /\ webhook_events' =
                  Append(webhook_events, out.db.webhook_events[Len(seen.webhook_events) + 1])
            /\ METRICS' = [k \in DOMAIN METRICS |-> METRICS[k] + out.db.METRICS[k] - seen.METRICS[k]]
            /\ requests' = [requests EXCEPT ![r].pc = "done", ![r].raised = out.raised,
                                            ![r].ret = Len(webhook_events) + 1]
            /\ UNCHANGED <<now, ops, gate>>

NextRace ==
    \/ ReceiveEvent
    \/ Lookup
    \/ Flush
    \/ ReadSubscription
    \/ FlushHandler
    \/ CommitHandler
    \/ CreateFirstSubscription
    \/ Tick

SpecRace == Init /\ [][NextRace]_vars

(***************************************************************************)
(* The gatekeeper and the webhook endpoint (src/app/api.py).  A request is  *)
(* a record of what the endpoint reads of it: the provider of the path, the *)
(* X-Webhook-Key-Id header (NoKeyId when absent), whether the timestamp     *)
(* header is present, whether it is the text of an integer and the integer, *)
(* whether the signature header is present and its value, the body, whether *)
(* the body's bytes are UTF-8 and whether its text validates as             *)
(* WebhookEventIn, and the address of the peer.  The clock of the host is   *)
(* taken to be UTC.                                                         *)
(***************************************************************************)
Rejected(status_code, detail, w) ==
    [ok |-> FALSE, status_code |-> status_code, detail |-> detail, windows |-> w]

\* while window and window[0] <= cutoff: window.popleft()
RECURSIVE Trimmed(_, _)
Trimmed(window, cutoff) ==
    IF window # <<>> /\ Head(window) <= cutoff THEN Trimmed(Tail(window), cutoff)
    ELSE window

\* A window at the cap still admitted.
RateLimitedAboveCap(window, cap) == Len(window) > cap

\* len(window) >= WEBHOOK_RATE_LIMIT_PER_MINUTE
RateLimited(window, cap) == Len(window) >= cap

\* Any signature taken.
SignatureUnchecked(signature, candidate_secrets, timestamp, body) == TRUE

\* The signature is the HMAC of "<timestamp>.<body>" under a candidate.
SignatureOk(signature, candidate_secrets, timestamp, body) ==
    \E i \in DOMAIN candidate_secrets : signature = Sign(candidate_secrets[i], timestamp, body)

\* The request admitted and not counted.
AdmitUncounted(w, rate_key, window, t) == [w EXCEPT ![rate_key] = window]

\* window.append(now_timestamp), on the trimmed window of the key.
Admit(w, rate_key, window, t) == [w EXCEPT ![rate_key] = Append(window, t)]

\* The gatekeeper with the signature checked before the rate limit.
validate_signature_first(w, request, t) ==
    LET candidate_secrets == get_secret_candidates(request.provider, request.key_id)
        rate_key == <<request.provider, request.client_ip>>
        window == Trimmed(w[rate_key], t - RATE_WINDOW_SECONDS)
        admitted == Admit(w, rate_key, window, t)
    IN  IF candidate_secrets = <<>>
        THEN Rejected(401, "unknown webhook provider", w)
        ELSE IF ~request.has_timestamp \/ ~request.has_signature
        THEN Rejected(401, "missing webhook signature headers", w)
        ELSE IF ~request.timestamp_is_int
        THEN Rejected(401, "invalid webhook timestamp", w)
        ELSE IF ~Fresh(request.timestamp, t)
        THEN Rejected(401, "webhook timestamp outside allowed window", w)
        ELSE IF env.WEBHOOK_IP_ALLOWLIST # {}
                /\ request.client_ip \notin env.WEBHOOK_IP_ALLOWLIST
        THEN Rejected(403, "ip not allowed", w)
        ELSE IF ~SignatureOk(request.signature, candidate_secrets, request.timestamp,
                             request.body)
        THEN Rejected(403, "invalid webhook signature", w)
        ELSE IF RateLimited(window, env.WEBHOOK_RATE_LIMIT_PER_MINUTE)
        THEN Rejected(429, "rate limit exceeded", [w EXCEPT ![rate_key] = window])
        ELSE IF ~request.decodes
        THEN Rejected(400, "invalid webhook body encoding", admitted)
        ELSE [ok |-> TRUE,
              verified |-> [raw_body |-> request.body, signature |-> request.signature,
                            timestamp |-> request.timestamp],
              windows |-> admitted]

validate_webhook_signature(w, request, t) ==
    LET candidate_secrets == get_secret_candidates(request.provider, request.key_id)
        rate_key == <<request.provider, request.client_ip>>
        window == Trimmed(w[rate_key], t - RATE_WINDOW_SECONDS)
        admitted == Admit(w, rate_key, window, t)
    IN  IF candidate_secrets = <<>>
        THEN Rejected(401, "unknown webhook provider", w)
        ELSE IF ~request.has_timestamp \/ ~request.has_signature
        THEN Rejected(401, "missing webhook signature headers", w)
        ELSE IF ~request.timestamp_is_int
        THEN Rejected(401, "invalid webhook timestamp", w)
        ELSE IF ~Fresh(request.timestamp, t)
        THEN Rejected(401, "webhook timestamp outside allowed window", w)
        ELSE IF env.WEBHOOK_IP_ALLOWLIST # {}
                /\ request.client_ip \notin env.WEBHOOK_IP_ALLOWLIST
        THEN Rejected(403, "ip not allowed", w)
        ELSE IF RateLimited(window, env.WEBHOOK_RATE_LIMIT_PER_MINUTE)
        THEN Rejected(429, "rate limit exceeded", [w EXCEPT ![rate_key] = window])
        ELSE IF ~SignatureOk(request.signature, candidate_secrets, request.timestamp,
                             request.body)
        THEN Rejected(403, "invalid webhook signature", admitted)
        ELSE IF ~request.decodes
        THEN Rejected(400, "invalid webhook body encoding", admitted)
        ELSE [ok |-> TRUE,
              verified |-> [raw_body |-> request.body, signature |-> request.signature,
                            timestamp |-> request.timestamp],
              windows |-> admitted]

\* The response of POST /v1/webhooks/{provider}, with the database and the
\* windows the request leaves.
Response(status_code, detail, db, w) ==
    [status_code |-> status_code, detail |-> detail, db |-> db, windows |-> w]

\* The endpoint from the outcome v of its dependency
\* validate_webhook_signature on.
receive_validated(db, v, request, t) ==
    IF ~v.ok THEN Response(v.status_code, v.detail, db, v.windows)
    ELSE IF ~request.parses THEN Response(400, "invalid webhook body", db, v.windows)
    ELSE LET r == process_webhook(db, request.provider, ParseWebhook(request.body),
                                  v.verified, t)
         IN  IF r.raised = "" THEN Response(200, "", r.db, v.windows)
             ELSE IF r.raised = "ReplayAttackError" THEN Response(403, r.msg, r.db, v.windows)
             ELSE IF r.raised = "InvalidPayloadError"
             THEN Response(400, r.msg, r.db, v.windows)
             ELSE Response(500, "internal processing error", r.db, v.windows)

webhook_receiver(db, w, request, t) ==
    receive_validated(db, validate_webhook_signature(w, request, t), request, t)

(***************************************************************************)
(* The webhook endpoint run request by request, under the environments of   *)
(* GateEnvs.                                                                *)
(***************************************************************************)
\* requests and waits in one behaviour of SpecGate
MaxGateOps == 3
\* the per-minute cap configured
MaxRateCap == 2

\* A provider in simple mode.
SimpleSecrets == [p \in {"test"} |-> JStr("s_cur")]

\* A provider in rotation mode; the current secret is listed again among
\* the previous ones, and one key names a previous secret.
RotationSecrets ==
    [p \in {"test"} |->
        JDict("s_cur", <<"s_old", "s_cur">>,
              [k \in {"k1", "k2"} |-> IF k = "k1" THEN "s_key" ELSE "s_old"])]

SecretsJsons ==
    {Unset, [set |-> TRUE, value |-> SimpleSecrets], [set |-> TRUE, value |-> RotationSecrets]}

\* The environments: each configuration of the secrets without allowlist,
\* and the default secrets with an allowlist of one address.
GateEnvs ==
    {Env(j, {}, MaxRateCap) : j \in SecretsJsons} \cup {Env(Unset, {"10.0.0.1"}, MaxRateCap)}

KeyIds == {NoKeyId, "k1", "k2"}

\* The secrets senders sign with.
SenderSecrets == {"test_secret", "stripe_secret_here", "s_cur", "s_old", "s_key", "wrong"}

GateBody1 == Body(EventIds[1], "customer.updated", EmptyPayload)

GateBody2 == Body(EventIds[2], "payment.succeeded", Payload(1, 1, None))

GateBodies == {GateBody1, GateBody2}

\* The timestamps requests carry when the clock reads t: now, the two ends
\* of the window and the first second beyond each.
GateTimestamps(t) ==
    {t - WEBHOOK_MAX_SKEW_SECONDS - 1, t - WEBHOOK_MAX_SKEW_SECONDS, t,
     t + WEBHOOK_MAX_SKEW_SECONDS, t + WEBHOOK_MAX_SKEW_SECONDS + 1}

\* A request with both headers, signed by its sender with a secret.
Signed(provider, key_id, timestamp, secret, body, client_ip) ==
    [provider |-> provider, key_id |-> key_id,
     has_timestamp |-> TRUE, timestamp_is_int |-> TRUE, timestamp |-> timestamp,
     has_signature |-> TRUE, signature |-> Sign(secret, timestamp, body),
     body |-> body, decodes |-> TRUE, parses |-> TRUE, client_ip |-> client_ip]

\* A request with one defect.
Defects(q) ==
    {[q EXCEPT !.has_timestamp = FALSE], [q EXCEPT !.has_signature = FALSE],
     [q EXCEPT !.timestamp_is_int = FALSE], [q EXCEPT !.decodes = FALSE],
     [q EXCEPT !.parses = FALSE]}

\* The requests of the domain.  The first event signed with a current or a
\* wrong secret at every timestamp; at the present timestamp, the first
\* event signed with any secret, with and without key id, and the second
\* event signed with a current secret; and the requests with one defect (a
\* header absent, a timestamp that is no integer, a body that is not UTF-8
\* or not a WebhookEventIn).
Requests(t) ==
    {Signed(p, NoKeyId, ts, s, GateBody1, ip) :
        p \in Providers, ts \in GateTimestamps(t), s \in {"test_secret", "s_cur", "wrong"},
        ip \in ClientIps}
    \cup {Signed(p, k, t, s, GateBody1, ip) :
            p \in Providers, k \in {NoKeyId, "k1"}, s \in SenderSecrets, ip \in ClientIps}
    \cup {Signed(p, NoKeyId, t, s, b, ip) :
            p \in Providers, s \in {"test_secret", "s_cur"}, b \in GateBodies, ip \in ClientIps}
    \cup UNION {Defects(Signed(p, NoKeyId, t, s, GateBody1, ip)) :
                  p \in Providers, s \in {"test_secret", "s_cur"}, ip \in ClientIps}

\* The requests made in the runs explored.  From the first address for the
\* provider test: the first event at every timestamp and the second at the
\* present one and at the old end of the window, signed with a current
\* secret; both events at the present timestamp signed with a previous or
\* a wrong secret; the first event under a key id, and with each defect;
\* the first event from the second address, and for the provider stripe.
SentRequests(t) ==
    {Signed("test", NoKeyId, ts, s, GateBody1, "10.0.0.1") :
        ts \in GateTimestamps(t), s \in {"test_secret", "s_cur"}}
    \cup {Signed("test", NoKeyId, ts, s, GateBody2, "10.0.0.1") :
            ts \in {t - WEBHOOK_MAX_SKEW_SECONDS, t}, s \in {"test_secret", "s_cur"}}
    \cup {Signed("test", NoKeyId, t, s, b, "10.0.0.1") : s \in {"s_old", "wrong"}, b \in GateBodies}
    \cup {Signed("test", "k1", t, s, GateBody1, "10.0.0.1") : s \in {"s_key", "s_cur"}}
    \cup {Signed("test", NoKeyId, t, s, GateBody1, "10.0.0.2") : s \in {"test_secret", "s_cur"}}
    \cup {Signed("stripe", NoKeyId, t, "stripe_secret_here", GateBody1, "10.0.0.1")}
    \cup UNION {Defects(Signed("test", NoKeyId, t, s, GateBody1, "10.0.0.1")) :
                  s \in {"test_secret", "s_cur"}}

\* The waits between two requests.
GateWaits == {30}

InitGate ==
    /\ customers = <<>>
    /\ subscriptions = <<>>
    /\ payments = <<>>
    /\ webhook_events = <<>>
    /\ METRICS = ZeroMetrics
    /\ now = 0
    /\ ops = 0
    /\ requests = <<>>
    /\ env \in GateEnvs
    /\ windows = NoWindows
    /\ response = NoResponse

\* POST /v1/webhooks/{provider}: the gatekeeper, then process_webhook.
PostWebhook ==
    \E request \in SentRequests(now) :
        LET out == webhook_receiver(DB, windows, request, now)
        IN  /\ ops < MaxGateOps
            /\ Commit(out.db)
            /\ windows' = out.windows
            /\ response' = [status_code |-> out.status_code, detail |-> out.detail]
            /\ ops' = ops + 1
            /\ UNCHANGED <<now, requests, env>>

Wait ==
    \E d \in GateWaits :
        /\ ops < MaxGateOps
        /\ ops' = ops + 1
        /\ now' = now + d
        /\ UNCHANGED <<customers, subscriptions, payments, webhook_events, METRICS, requests,
                       gate>>

NextGate ==
    \/ PostWebhook
    \/ Wait

SpecGate == InitGate /\ [][NextGate]_vars

(***************************************************************************)
(* Webhook requests in flight together in one process.  The endpoint is a  *)
(* coroutine on one event loop: it runs without interruption from one      *)
(* await to the next.  validate_webhook_signature has one await, of the     *)
(* request body (line 186), after the rate limit and the append to the      *)
(* window; what follows it (the signature check, the decoding, the parse    *)
(* and process_webhook on a synchronous session) has none.                  *)
(***************************************************************************)
\* The requests that arrive when the clock reads t: the first event for the
\* provider test from the first address, signed with the default or a wrong
\* secret.
ArrivingRequests(t) ==
    {Signed("test", NoKeyId, t, s, GateBody1, "10.0.0.1") : s \in {"test_secret", "wrong"}}

\* The rejection is raised before the body is awaited (lines 138-184).
RaisedBeforeBody(v) ==
    /\ ~v.ok
    /\ v.detail \notin {"invalid webhook signature", "invalid webhook body encoding"}

\* A request runs up to the await of its body: it is rejected, or it is
\* counted in its window and waits for the body.  (The outcome of the
\* signature check and of the decoding, made after the await, depends on
\* the request and on the secrets only.)
Arrive ==
    \E request \in ArrivingRequests(now) :
        LET v == validate_webhook_signature(windows, request, now)
        IN  /\ windows' = v.windows
            /\ IF RaisedBeforeBody(v)
               THEN /\ response' = [status_code |-> v.status_code, detail |-> v.detail]
                    /\ UNCHANGED requests
               ELSE /\ Len(requests) < MaxRequests
                    /\ requests' = Append(requests, [request |-> request, arrived |-> now,
                                                     validated |-> v, pc |-> "body"])
                    /\ UNCHANGED response
            /\ UNCHANGED <<customers, subscriptions, payments, webhook_events, METRICS, now,
                           ops, env>>

\* The body has arrived: the request runs to its response.
BodyRead ==
    \E r \in DOMAIN requests :
        LET out == receive_validated(DB, requests[r].validated, requests[r].request, now)
        IN  /\ requests[r].pc = "body"
            /\ Commit(out.db)
            /\ response' = [status_code |-> out.status_code, detail |-> out.detail]
            /\ requests' = [requests EXCEPT ![r].pc = "done"]
            /\ UNCHANGED <<now, ops, env, windows>>

NextInFlight ==
    \/ Arrive
    \/ BodyRead
    \/ Wait

\* The process started with the default secrets and an allowlist of the
\* first address.
InitInFlight ==
    /\ InitGate
    /\ env.WEBHOOK_SECRETS_JSON = Unset

SpecInFlight == InitInFlight /\ [][NextInFlight]_vars

(***************************************************************************)
(* Properties.  Where a property speaks of one call, it is stated of the   *)
(* outcome of that call in every reachable state, for every input of the   *)
(* domain, whether or not a run of the model makes that call there.        *)
(***************************************************************************)
\* Every delivery of the domain that the gatekeeper may hand over for the
\* provider of the runs when the clock reads t.
Deliveries(t) ==
    {[provider |-> "test", body |-> b, ts |-> ts] : b \in Bodies, ts \in Timestamps(t)}

Outcome(db, d) == WebhookOutcome(db, d.provider, d.body, d.ts, now)

ExistingRow(d) == get_existing_event(DB, d.provider, d.body.event_id)

\* The delivery carries the timestamp and the signature stored with row e.
Matches(d, e) ==
    /\ d.ts = webhook_events[e].signature_timestamp
    /\ Verified(d.provider, d.body, d.ts).signature = webhook_events[e].signature

KeyRows(db, provider, event_id) ==
    {e \in DOMAIN db.webhook_events :
        db.webhook_events[e].provider = provider /\ db.webhook_events[e].event_id = event_id}

\* The Payment rows written for an event.
KeyPayments(db, provider, event_id) ==
    {p \in DOMAIN db.payments :
        db.payments[p].provider = provider /\ db.payments[p].provider_payment_id = event_id}

ReplayMessages == {"replay timestamp mismatch", "replay signature mismatch"}

\* C1 (as claimed): no stored event ever has more than one Payment row,
\* over deliveries (first, identical, with another timestamp or signature)
\* and retry sweeps.
C1_AtMostOnePaymentPerEvent ==
    \A e \in DOMAIN webhook_events :
        Cardinality(KeyPayments(DB, webhook_events[e].provider,
                                webhook_events[e].event_id)) <= 1

\* C2: a first delivery whose handler applies the event leaves exactly one
\* row for the key, processed, and exactly one Payment row; the second and
\* the third identical delivery each return that row and change nothing but
\* webhook_replayed, which they increment by one; the same holds of an
\* identical delivery of any stored processed event.
C2_IdempotentDuplicate ==
    \A d \in Deliveries(now) :
        LET e == ExistingRow(d)
            r1 == Outcome(DB, d)
            r2 == Outcome(r1.db, d)
            r3 == Outcome(r2.db, d)
        IN  /\ (e = 0 /\ r1.raised = "" /\ Len(r1.db.payments) = Len(payments) + 1) =>
                  /\ r1.db.webhook_events[r1.ret].processing_status = "processed"
                  /\ KeyRows(r3.db, d.provider, d.body.event_id) = {r1.ret}
                  /\ Cardinality(KeyPayments(r3.db, d.provider, d.body.event_id)) = 1
                  /\ r2.raised = "" /\ r2.ret = r1.ret
                  /\ r2.db = Bump(r1.db, "webhook_replayed")
                  /\ r3.raised = "" /\ r3.ret = r1.ret
                  /\ r3.db = Bump(r2.db, "webhook_replayed")
            /\ (e # 0 /\ Matches(d, e) /\ webhook_events[e].processing_status = "processed") =>
                  /\ r1.raised = "" /\ r1.ret = e
                  /\ r1.db = Bump(DB, "webhook_replayed")

\* C2 witness: an event delivered three times: processed, never failed, one
\* Payment row, two replays counted.
C2_Witness ==
    \E e \in DOMAIN webhook_events :
        /\ webhook_events[e].processing_status = "processed"
        /\ webhook_events[e].attempt_count = 1
        /\ Cardinality(KeyPayments(DB, webhook_events[e].provider,
                                   webhook_events[e].event_id)) = 1
        /\ Len(payments) = 1
        /\ METRICS["webhook_replayed"] = 2
        /\ METRICS["webhook_processed"] = 1

\* At most one row per (provider, event_id).
UniqueKeys ==
    \A e1, e2 \in DOMAIN webhook_events :
        (/\ webhook_events[e1].provider = webhook_events[e2].provider
         /\ webhook_events[e1].event_id = webhook_events[e2].event_id) => e1 = e2

\* A request leaves the flush by the IntegrityError branch: it inserts no
\* row, and if the committed row is processed or ignored and carries the
\* request's timestamp and signature, the request returns it, counts a
\* replay and writes nothing else (no handler runs).
RacedToExisting ==
    \A r \in DOMAIN requests :
        (requests[r].pc = "flush" /\ requests'[r].pc = "done") =>
            LET q == requests[r]
                e == get_existing_event(DB, q.provider, q.body.event_id)
            IN  /\ e # 0
                /\ requests'[r].raced
                /\ Len(webhook_events') = Len(webhook_events)
                /\ (/\ IsTerminal(webhook_events[e].processing_status)
                    /\ q.timestamp = webhook_events[e].signature_timestamp
                    /\ Verified(q.provider, q.body, q.timestamp).signature
                          = webhook_events[e].signature) =>
                       /\ requests'[r].raised = "" /\ requests'[r].ret = e
                       /\ webhook_events' = webhook_events
                       /\ payments' = payments
                       /\ subscriptions' = subscriptions
                       /\ METRICS' = [METRICS EXCEPT !["webhook_replayed"] = @ + 1]

\* C3: there is never more than one row per (provider, event_id), also with
\* first deliveries of one id in flight together; the request that loses the
\* insert takes the existing-row path.
C3_OneRowPerKey == [](UniqueKeys) /\ [][RacedToExisting]_vars

\* C3 witness: two requests for the same key both passed the look-up with
\* no row; one inserted and was processed, the other lost the insert and
\* was answered as a replay; one row, one Payment row.
C3_Witness ==
    \E r1, r2 \in DOMAIN requests :
        /\ r1 # r2
        /\ Key(requests[r1]) = Key(requests[r2])
        /\ requests[r1].pc = "done" /\ requests[r2].pc = "done"
        /\ ~requests[r1].raced /\ requests[r2].raced
        /\ requests[r2].raised = "" /\ requests[r2].ret = requests[r1].ret
        /\ webhook_events[requests[r1].ret].processing_status = "processed"
        /\ Len(payments) = 1
        /\ METRICS["webhook_replayed"] = 1

\* C4 (as claimed): a canceled subscription has canceled_at set and access
\* revoked.
C4_CanceledHasCanceledAt ==
    \A s \in DOMAIN subscriptions :
        subscriptions[s].status = "canceled" =>
            subscriptions[s].canceled_at # None /\ subscriptions[s].access_revoked

\* C5 (as claimed): an expired subscription has expired_at set.
C5_ExpiredHasExpiredAt ==
    \A s \in DOMAIN subscriptions :
        subscriptions[s].status = "expired" => subscriptions[s].expired_at # None

\* C6: no step of any call lowers the current_period_end of a subscription.
C6_PeriodEndMonotonic ==
    [][\A s \in DOMAIN subscriptions :
          subscriptions'[s].current_period_end >= subscriptions[s].current_period_end]_vars

\* C6 witness: a subscription whose period end was advanced by one event,
\* after which an event with an earlier period end was turned away.
C6_Witness ==
    /\ \E s \in DOMAIN subscriptions : subscriptions[s].current_period_end = 300
    /\ \E e \in DOMAIN webhook_events :
          /\ webhook_events[e].error_message = "stale event ignored"
          /\ webhook_events[e].payload_raw.payload_json.current_period_end = None
    /\ now = 0

\* C7 (as claimed): an event turned away as stale is stored as ignored.
C7_StaleEndsIgnored ==
    \A e \in DOMAIN webhook_events :
        webhook_events[e].error_message = "stale event ignored" =>
            webhook_events[e].processing_status = "ignored"

\* The cases in which the handler of a typed event raises: a required field
\* is absent, no customer or no subscription has the token, or the
\* subscription belongs to another customer.
HandlerMustRaise(body) ==
    /\ body.event_type \in {"payment.succeeded", "invoice.payment_failed"}
    /\ LET pl == body.payload_json
       IN  \/ pl.provider_customer_id = Missing
           \/ pl.provider_subscription_id = Missing
           \/ ~\E c \in DOMAIN customers :
                  customers[c].provider_customer_id = pl.provider_customer_id
           \/ ~\E x \in DOMAIN subscriptions :
                  subscriptions[x].provider_subscription_id = pl.provider_subscription_id
           \/ \E c \in DOMAIN customers, x \in DOMAIN subscriptions :
                  /\ customers[c].provider_customer_id = pl.provider_customer_id
                  /\ subscriptions[x].provider_subscription_id = pl.provider_subscription_id
                  /\ subscriptions[x].customer_id # c

\* C8: a first delivery inserts one row; when the handler raises, the
\* error is raised to the caller and what is committed is that row as
\* failed (second attempt scheduled, the error as message) with the
\* customers, subscriptions and payments as they were; otherwise the row is
\* committed as processed or ignored, with at most one new Payment row.
C8_FailureCommitsNoEffects ==
    \A d \in Deliveries(now) :
        ExistingRow(d) = 0 =>
            LET r == Outcome(DB, d)
                e == Len(webhook_events) + 1
                row == r.db.webhook_events[e]
            IN  /\ r.ret = e
                /\ Len(r.db.webhook_events) = e
                /\ SubSeq(r.db.webhook_events, 1, e - 1) = webhook_events
                /\ (r.raised # "") = HandlerMustRaise(d.body)
                /\ r.raised # "" =>
                      /\ row.processing_status = "failed"
                      /\ row.error_message = r.msg
                      /\ row.attempt_count = 2
                      /\ row.next_retry_at = now + 600
                      /\ r.db.subscriptions = subscriptions
                      /\ r.db.payments = payments
                      /\ r.db.customers = customers
                /\ r.raised = "" =>
                      /\ row.processing_status \in {"processed", "ignored"}
                      /\ row.attempt_count = 1
                      /\ \/ r.db.payments = payments
                         \/ /\ row.processing_status = "processed"
                            /\ Len(r.db.payments) = Len(payments) + 1
                            /\ SubSeq(r.db.payments, 1, Len(payments)) = payments

\* C8 witness: a first delivery for a subscription of another customer was
\* committed as failed; nothing was paid and no subscription has changed.
C8_Witness ==
    /\ \E e \in DOMAIN webhook_events :
          /\ webhook_events[e].processing_status = "failed"
          /\ webhook_events[e].attempt_count = 2
          /\ webhook_events[e].error_message
                = "provider_subscription_id belongs to a different customer_id"
    /\ payments = <<>>
    /\ Len(subscriptions) = 2
    /\ \A s \in DOMAIN subscriptions : subscriptions[s].status = "pending_activation"

\* C9: a delivery for a stored event with another timestamp, or with the
\* same timestamp and another signature, raises ReplayAttackError with the
\* message of the first mismatch and commits the stored row as failed with
\* that message and one more attempt, whatever its status was; no other row,
\* no subscription and no payment changes.
C9_ReplayMarksFailed ==
    [](\A d \in Deliveries(now) :
           LET e == ExistingRow(d)
               r == Outcome(DB, d)
               tsDiffers == d.ts # webhook_events[e].signature_timestamp
               sigDiffers == Verified(d.provider, d.body, d.ts).signature
                                # webhook_events[e].signature
           IN  (e # 0 /\ (tsDiffers \/ sigDiffers)) =>
                   /\ r.raised = "ReplayAttackError"
                   /\ r.msg = IF tsDiffers THEN "replay timestamp mismatch"
                              ELSE "replay signature mismatch"
                   /\ r.db.webhook_events[e].processing_status = "failed"
                   /\ r.db.webhook_events[e].error_message = r.msg
                   /\ r.db.webhook_events[e].attempt_count = webhook_events[e].attempt_count + 1
                   /\ \A x \in DOMAIN webhook_events :
                         x # e => r.db.webhook_events[x] = webhook_events[x]
                   /\ Len(r.db.webhook_events) = Len(webhook_events)
                   /\ r.db.subscriptions = subscriptions
                   /\ r.db.payments = payments
                   /\ r.db.customers = customers)

\* C9 witness: a processed event, its payment written, was delivered again
\* with a later timestamp and is now failed with the replay message.
C9_Witness ==
    \E e \in DOMAIN webhook_events :
        /\ webhook_events[e].processing_status = "failed"
        /\ webhook_events[e].error_message = "replay timestamp mismatch"
        /\ webhook_events[e].attempt_count = 2
        /\ METRICS["webhook_processed"] = 1
        /\ Cardinality(KeyPayments(DB, webhook_events[e].provider,
                                   webhook_events[e].event_id)) = 1

\* C10 (as claimed): once a row is processed or ignored, no delivery and no
\* retry sweep changes its processing_status.
C10_TerminalNeverChanges ==
    [][\A e \in DOMAIN webhook_events :
          IsTerminal(webhook_events[e].processing_status) =>
              webhook_events'[e].processing_status = webhook_events[e].processing_status]_vars

\* The only change of a processed or ignored row's status, by a delivery or
\* a retry sweep, is the one a replay makes: to failed, with a replay
\* message and one more attempt.
TerminalChangesOnlyByReplay ==
    \A e \in DOMAIN webhook_events :
        (/\ IsTerminal(webhook_events[e].processing_status)
         /\ webhook_events'[e].processing_status # webhook_events[e].processing_status) =>
            /\ webhook_events'[e].processing_status = "failed"
            /\ webhook_events'[e].error_message \in ReplayMessages
            /\ webhook_events'[e].attempt_count = webhook_events[e].attempt_count + 1
            /\ payments' = payments
            /\ subscriptions' = subscriptions

\* Every row a retry sweep reports, processed or failed, was failed when the
\* sweep began; the sweep leaves the processed and ignored rows as they are.
SweepTakesOnlyFailed ==
    \A limit \in RetryLimits :
        LET r == retry_failed_webhooks(DB, limit, now)
        IN  /\ \A e \in Range(r.ret.processed_ids) \cup Range(r.ret.failed_ids) :
                  webhook_events[e].processing_status = "failed"
            /\ \A e \in DOMAIN webhook_events :
                  IsTerminal(webhook_events[e].processing_status) =>
                      r.db.webhook_events[e] = webhook_events[e]

\* C10 (amended): a processed or ignored row keeps its status through every
\* delivery that carries its timestamp and signature and through every
\* retry sweep, which takes failed rows only; a delivery with another
\* timestamp or signature marks it failed (replay).
C10_TerminalUnlessReplay == [][TerminalChangesOnlyByReplay]_vars /\ [](SweepTakesOnlyFailed)

\* C10 witness: a stored event was ignored, a replay marked it failed, and
\* the retry sweep, run when the row was due, took it: it is ignored again
\* and counted twice.
C10_Witness ==
    \E e \in DOMAIN webhook_events :
        /\ webhook_events[e].processing_status = "ignored"
        /\ webhook_events[e].attempt_count = 2
        /\ webhook_events[e].next_retry_at = None
        /\ METRICS["webhook_ignored"] = 2
        /\ METRICS["webhook_failed"] = 1
        /\ now > 0

\* C11 (as claimed): needs_attention holds of exactly the rows with three
\* attempts or more.
C11_NeedsAttentionIffThreeAttempts ==
    \A e \in DOMAIN webhook_events :
        webhook_events[e].needs_attention <=> webhook_events[e].attempt_count >= 3

\* C11 (amended): a failed row has needs_attention exactly when it has three
\* attempts or more; a processed or ignored row never has it, whatever its
\* number of attempts.
C11_NeedsAttentionOfFailedRows ==
    \A e \in DOMAIN webhook_events :
        /\ webhook_events[e].processing_status = "failed" =>
              (webhook_events[e].needs_attention <=> webhook_events[e].attempt_count >= 3)
        /\ webhook_events[e].processing_status \in {"processed", "ignored"} =>
              ~webhook_events[e].needs_attention

\* C11 witness: an event failed twice after its insert, was flagged, and a
\* later dispatch applied it: processed, three attempts, not flagged.
C11_Witness ==
    \E e \in DOMAIN webhook_events :
        /\ webhook_events[e].processing_status = "processed"
        /\ webhook_events[e].attempt_count = 3
        /\ ~webhook_events[e].needs_attention
        /\ METRICS["webhook_failed"] = 2
        /\ Cardinality(KeyPayments(DB, webhook_events[e].provider,
                                   webhook_events[e].event_id)) = 1

LegalTransitions ==
    {<<"pending_activation", "active">>, <<"active", "past_due">>, <<"active", "expired">>,
     <<"active", "canceled">>, <<"past_due", "active">>, <<"past_due", "canceled">>}

\* Every subscription whose status differs between two database values
\* changed by a legal transition.
LegalStep(before, after) ==
    \A s \in DOMAIN before.subscriptions :
        after.subscriptions[s].status # before.subscriptions[s].status =>
            <<before.subscriptions[s].status, after.subscriptions[s].status>>
                \in LegalTransitions

\* The database before the first and after every turn of the loop of a
\* retry sweep over the given events.
RECURSIVE SweepStates(_, _, _)
SweepStates(dbs, events, t) ==
    IF events = <<>> THEN dbs
    ELSE SweepStates(Append(dbs, RetryOne(dbs[Len(dbs)], Head(events), t).db),
                     Tail(events), t)

\* Every change of status that a call makes in a reachable state is legal:
\* one delivery, each dispatch of a retry sweep, an admin reprocess, the two
\* subscription sweeps, the flag.  (A retry sweep that dispatches two events
\* of one subscription makes two changes in one commit.)
StatusChangesLegal ==
    /\ \A d \in Deliveries(now) : LegalStep(DB, Outcome(DB, d).db)
    /\ \A limit \in RetryLimits :
          LET dbs == SweepStates(<<DB>>, RetryCandidates(DB, limit, now), now)
          IN  /\ dbs[Len(dbs)] = retry_failed_webhooks(DB, limit, now).db
              /\ \A i \in 1..(Len(dbs) - 1) : LegalStep(dbs[i], dbs[i + 1])
    /\ \A event_id \in Range(EventIds) :
          LegalStep(DB, reprocess_webhook_event(DB, event_id, now).db)
    /\ LegalStep(DB, enforce_grace_period(DB, now).db)
    /\ LegalStep(DB, expire_subscriptions(DB, now).db)
    /\ \A subscription_id \in 1..MaxSubs, flag \in BOOLEAN :
          LegalStep(DB, set_subscription_cancel_at_period_end(DB, subscription_id, flag).db)

\* No step changes the status of a canceled or expired subscription.
TerminalStatusKept ==
    \A s \in DOMAIN subscriptions :
        subscriptions[s].status \in {"canceled", "expired"} =>
            subscriptions'[s].status = subscriptions[s].status

\* C12: every change of a subscription's status by any call is a legal
\* transition, and a subscription that is canceled or expired keeps its
\* status for ever.
C12_LegalTransitions == [](StatusChangesLegal) /\ [][TerminalStatusKept]_vars

\* C12 witness: a subscription expired by the sweep then received a
\* payment (its expired_at was cleared, a second Payment row written) and is
\* still expired.
C12_Witness ==
    \E s \in DOMAIN subscriptions :
        /\ subscriptions[s].status = "expired"
        /\ subscriptions[s].expired_at = None
        /\ Len(payments) = 2
        /\ \A p \in DOMAIN payments :
              payments[p].subscription_id = s /\ payments[p].status = "approved"

\* A subscription in past_due has the date it entered it.
PastDueHasDate ==
    \A s \in DOMAIN subscriptions :
        subscriptions[s].status = "past_due" => subscriptions[s].past_due_since # None

\* A step that takes a subscription from past_due to active leaves it
\* without past_due_since.
LeavingPastDueClearsDate ==
    \A s \in DOMAIN subscriptions :
        (subscriptions[s].status = "past_due" /\ subscriptions'[s].status = "active") =>
            subscriptions'[s].past_due_since = None

\* C13: a past_due subscription has past_due_since set, and the payment
\* that takes it back to active clears it.
C13_PastDueSince == [](PastDueHasDate) /\ [][LeavingPastDueClearsDate]_vars

\* C13 witness: a subscription was paid, then an invoice failed (past_due),
\* then a payment was applied again: active, no past_due_since.
C13_Witness ==
    \E s \in DOMAIN subscriptions :
        /\ subscriptions[s].status = "active"
        /\ subscriptions[s].past_due_since = None
        /\ Len(payments) = 3
        /\ payments[1].status = "approved" /\ payments[1].subscription_id = s
        /\ payments[2].status = "refused" /\ payments[2].subscription_id = s
        /\ payments[3].status = "approved" /\ payments[3].subscription_id = s

\* The row e of a database value was marked failed at time t with the given
\* message, as the attempt after attempt_count.
MarkedFailed(db, e, attempt_count, message, t) ==
    LET row == db.webhook_events[e]
    IN  /\ row.attempt_count = attempt_count + 1
        /\ row.next_retry_at = t + Min(300 * (attempt_count + 1), 3600)
        /\ row.needs_attention = (attempt_count + 1 >= 3)
        /\ row.processing_status = "failed"
        /\ row.error_message = message

\* Every dispatch that fails marks the event: of a delivery (a first one
\* counts from the 1 of the insert), of each event a retry sweep takes, of an
\* admin reprocess; a dispatch that returns leaves attempt_count.
FailureMarks ==
    /\ \A d \in Deliveries(now) :
          LET e == ExistingRow(d)
              r == Outcome(DB, d)
          IN  IF r.raised # ""
              THEN MarkedFailed(r.db, r.ret,
                                IF e = 0 THEN 1 ELSE webhook_events[e].attempt_count,
                                r.msg, now)
              ELSE r.db.webhook_events[r.ret].attempt_count =
                      IF e = 0 THEN 1 ELSE webhook_events[e].attempt_count
    /\ \A limit \in RetryLimits :
          LET r == retry_failed_webhooks(DB, limit, now)
          IN  /\ \A e \in Range(r.ret.failed_ids) :
                    MarkedFailed(r.db, e, webhook_events[e].attempt_count,
                                 r.db.webhook_events[e].error_message, now)
              /\ \A e \in DOMAIN webhook_events \ Range(r.ret.failed_ids) :
                    r.db.webhook_events[e].attempt_count = webhook_events[e].attempt_count
    /\ \A e \in DOMAIN webhook_events :
          LET d == dispatch_event(DB, e, now)
              r == reprocess_webhook_event(DB, webhook_events[e].event_id, now)
          IN  IF d.raised # ""
              THEN MarkedFailed(r.db, e, webhook_events[e].attempt_count, d.msg, now)
              ELSE r.db.webhook_events[e].attempt_count = webhook_events[e].attempt_count

\* A step changes the attempt_count of a stored row only by marking it
\* failed, and inserts a row with attempt_count 1, or 2 and marked failed.
AttemptsChangeOnlyOnFailure ==
    /\ \A e \in DOMAIN webhook_events :
          webhook_events'[e].attempt_count # webhook_events[e].attempt_count =>
              /\ MarkedFailed([webhook_events |-> webhook_events'], e,
                              webhook_events[e].attempt_count,
                              webhook_events'[e].error_message, now)
              /\ webhook_events'[e].error_message # NoMessage
    /\ \A e \in DOMAIN webhook_events' \ DOMAIN webhook_events :
          \/ /\ webhook_events'[e].attempt_count = 1
             /\ webhook_events'[e].processing_status # "failed"
          \/ MarkedFailed([webhook_events |-> webhook_events'], e, 1,
                          webhook_events'[e].error_message, now)

\* attempt counts for which the delay is computed
MaxAttempts == 14

\* The delay is 300 seconds per attempt below the twelfth attempt and 3600
\* seconds from the twelfth on.
BackoffCapped ==
    \A n \in 1..MaxAttempts :
        RetryDelay(n) = IF n >= 12 THEN 3600 ELSE 300 * n

\* C14: a failed dispatch adds one to attempt_count (1 at insert, changed by
\* failures only), schedules the retry min(300 * attempt_count, 3600) seconds
\* from now with the new count, sets needs_attention from three attempts on,
\* the status failed and the reason as message; the delay stays 3600 from
\* the twelfth attempt on.
C14_FailureMarking ==
    [](FailureMarks /\ BackoffCapped) /\ [][AttemptsChangeOnlyOnFailure]_vars

\* C14 witness: an event failed at its first delivery and again at its
\* identical redelivery: three attempts, retry in 900 seconds, flagged.
C14_Witness ==
    \E e \in DOMAIN webhook_events :
        /\ webhook_events[e].processing_status = "failed"
        /\ webhook_events[e].attempt_count = 3
        /\ webhook_events[e].next_retry_at = now + 900
        /\ webhook_events[e].needs_attention
        /\ webhook_events[e].error_message = "provider_customer_id not found"
        /\ METRICS["webhook_failed"] = 2

\* The rows a retry sweep may take at time t.
DueFailedRows(t) ==
    {e \in DOMAIN webhook_events :
        /\ webhook_events[e].processing_status = "failed"
        /\ webhook_events[e].needs_attention = FALSE
        /\ (webhook_events[e].next_retry_at = None \/ webhook_events[e].next_retry_at <= t)}

StrictlyAscending(seq) == \A i, j \in DOMAIN seq : i < j => seq[i] < seq[j]

\* C15: a retry sweep dispatches only rows that are failed, not flagged and
\* due when it runs, the lowest ids first and at most limit of them; every
\* other row, a flagged or not yet due one among them, is left as it is.
C15_SweepTakesDueFailedFifo ==
    \A limit \in RetryLimits :
        LET r == retry_failed_webhooks(DB, limit, now)
            taken == Range(r.ret.processed_ids) \cup Range(r.ret.failed_ids)
            due == DueFailedRows(now)
        IN  /\ taken \subseteq due
            /\ Cardinality(taken) = Min(limit, Cardinality(due))
            /\ r.ret.checked = Cardinality(taken)
            /\ Len(r.ret.processed_ids) + Len(r.ret.failed_ids) = Cardinality(taken)
            /\ \A e \in taken, x \in due \ taken : e < x
            /\ StrictlyAscending(r.ret.processed_ids)
            /\ StrictlyAscending(r.ret.failed_ids)
            /\ \A e \in DOMAIN webhook_events \ taken :
                  r.db.webhook_events[e] = webhook_events[e]
            /\ Len(r.db.webhook_events) = Len(webhook_events)

\* C15 witness: two failed rows were due; a sweep with limit 1 took the
\* first (it failed again: third attempt, flagged) and left the second, due.
C15_Witness ==
    /\ Len(webhook_events) = 2
    /\ now > 0
    /\ webhook_events[1].processing_status = "failed"
    /\ webhook_events[1].attempt_count = 3
    /\ webhook_events[1].needs_attention
    /\ webhook_events[1].next_retry_at = now + 900
    /\ webhook_events[1].error_message = "provider_customer_id not found"
    /\ webhook_events[2].processing_status = "failed"
    /\ webhook_events[2].attempt_count = 2
    /\ webhook_events[2].next_retry_at <= now
    /\ DueFailedRows(now) = {2}

\* C16 (as claimed): every event a retry sweep reports in processed_ids is
\* processed after the sweep.
C16_SweepSuccessEndsProcessed ==
    \A limit \in RetryLimits :
        LET r == retry_failed_webhooks(DB, limit, now)
        IN  \A e \in Range(r.ret.processed_ids) :
                r.db.webhook_events[e].processing_status = "processed"

\* C16 (amended): an event a retry sweep takes is reported in processed_ids
\* exactly when its dispatch returns; it is then processed, or ignored when
\* no handler is registered for its type, with next_retry_at, needs_attention
\* and error_message cleared and attempt_count unchanged; when it is the
\* only event taken, the customers, subscriptions and payments committed are
\* those its handler leaves.
C16_SweepSuccessClears ==
    \A limit \in RetryLimits :
        LET r == retry_failed_webhooks(DB, limit, now)
            taken == Range(r.ret.processed_ids) \cup Range(r.ret.failed_ids)
        IN  /\ \A e \in Range(r.ret.processed_ids) :
                  LET row == r.db.webhook_events[e]
                  IN  /\ row.processing_status =
                            IF row.event_type \in {"payment.succeeded", "invoice.payment_failed"}
                            THEN "processed" ELSE "ignored"
                      /\ row.next_retry_at = None
                      /\ row.needs_attention = FALSE
                      /\ row.error_message = NoMessage
                      /\ row.attempt_count = webhook_events[e].attempt_count
            /\ \A e \in taken :
                  taken = {e} =>
                      LET d == dispatch_event(DB, e, now)
                      IN  /\ (d.raised = "") = (e \in Range(r.ret.processed_ids))
                          /\ r.db.customers = d.db.customers
                          /\ r.db.subscriptions = d.db.subscriptions
                          /\ r.db.payments = d.db.payments

\* C16 witness: a payment event failed for want of its customer; the
\* subscription was created, time passed and the sweep applied the event:
\* processed, second attempt kept, cleared, the subscription active and paid.
C16_Witness ==
    \E e \in DOMAIN webhook_events :
        /\ webhook_events[e].processing_status = "processed"
        /\ webhook_events[e].attempt_count = 2
        /\ webhook_events[e].next_retry_at = None
        /\ webhook_events[e].error_message = NoMessage
        /\ METRICS["webhook_failed"] = 1
        /\ METRICS["webhook_processed"] = 1
        /\ now > 0
        /\ Len(payments) = 1
        /\ payments[1].provider_payment_id = webhook_events[e].event_id
        /\ subscriptions[payments[1].subscription_id].status = "active"

\* The details of the gatekeeper's rejections.
GateDetails ==
    {"unknown webhook provider", "missing webhook signature headers",
     "invalid webhook timestamp", "webhook timestamp outside allowed window",
     "ip not allowed", "rate limit exceeded", "invalid webhook signature",
     "invalid webhook body encoding"}

Abs(n) == IF n < 0 THEN -n ELSE n

\* The secret the sender of a request signed with.
SignedWith(request) == request.signature[1]

\* The request passes the steps of the gatekeeper that come before the rate
\* limit: a configured provider, both headers, an integer timestamp inside
\* the window, an allowed address.
ReachesRateLimit(request, t) ==
    /\ get_secret_candidates(request.provider, request.key_id) # <<>>
    /\ request.has_timestamp /\ request.has_signature /\ request.timestamp_is_int
    /\ Abs(t - request.timestamp) <= 300
    /\ (env.WEBHOOK_IP_ALLOWLIST = {} \/ request.client_ip \in env.WEBHOOK_IP_ALLOWLIST)

\* The entries of the request's window younger than 60 seconds.
Kept(request, t) ==
    LET Recent(x) == x > t - 60
    IN  SelectSeq(windows[<<request.provider, request.client_ip>>], Recent)

\* C17: a request the gatekeeper rejects leaves the tables and the counters
\* as they are; every request with a defect (unknown provider, absent
\* header, timestamp no integer or outside the window, address not allowed,
\* window full, signature under no candidate secret, body not UTF-8) is
\* rejected with 400, 401, 403 or 429, and one that is signed with a secret
\* that is no candidate and reaches the signature check is rejected with 403.
C17_RejectedWritesNothing ==
    [](\A request \in Requests(now) :
           LET out == webhook_receiver(DB, windows, request, now)
               foreign == SignedWith(request)
                             \notin Range(get_secret_candidates(request.provider, request.key_id))
               full == Len(Kept(request, now)) >= env.WEBHOOK_RATE_LIMIT_PER_MINUTE
           IN  /\ out.detail \in GateDetails => out.db = DB
               /\ (~ReachesRateLimit(request, now) \/ full \/ foreign \/ ~request.decodes) =>
                     /\ out.detail \in GateDetails
                     /\ out.status_code \in {400, 401, 403, 429}
                     /\ out.db = DB
               /\ (ReachesRateLimit(request, now) /\ ~full /\ foreign) =>
                     /\ out.status_code = 403
                     /\ out.detail = "invalid webhook signature")

\* C17 witness: under the default secrets, a request with a signature under
\* no candidate secret was answered 403 after it was counted in its window; no row, no counter.
C17_Witness ==
    /\ ~env.WEBHOOK_SECRETS_JSON.set
    /\ response = [status_code |-> 403, detail |-> "invalid webhook signature"]
    /\ webhook_events = <<>>
    /\ payments = <<>>
    /\ METRICS = ZeroMetrics
    /\ \E k \in DOMAIN windows : windows[k] # <<>>

\* C18: a request that reaches the rate limit is admitted exactly when its
\* window, trimmed, holds fewer than cap timestamps; admitted, now is
\* appended to the trimmed window; rejected (429), nothing is appended and
\* nothing written; the windows of the other keys are as they were, and a
\* request rejected before the rate limit leaves every window.
C18_RateLimit ==
    \A request \in Requests(now) :
        LET out == webhook_receiver(DB, windows, request, now)
            key == <<request.provider, request.client_ip>>
            kept == Kept(request, now)
        IN  /\ \A k \in DOMAIN windows \ {key} : out.windows[k] = windows[k]
            /\ DOMAIN out.windows = DOMAIN windows
            /\ ~ReachesRateLimit(request, now) =>
                  out.windows = windows /\ out.status_code # 429
            /\ ReachesRateLimit(request, now) =>
                  IF Len(kept) < env.WEBHOOK_RATE_LIMIT_PER_MINUTE
                  THEN /\ out.windows[key] = Append(kept, now)
                       /\ out.status_code # 429
                  ELSE /\ out.windows[key] = kept
                       /\ out.status_code = 429
                       /\ out.detail = "rate limit exceeded"
                       /\ out.db = DB

\* C18 witness: a window holds cap timestamps of the last minute and the
\* last request was answered 429.
C18_Witness ==
    /\ response = [status_code |-> 429, detail |-> "rate limit exceeded"]
    /\ \E k \in DOMAIN windows :
          /\ Len(windows[k]) = env.WEBHOOK_RATE_LIMIT_PER_MINUTE
          /\ \A i \in DOMAIN windows[k] : windows[k][i] > now - 60

\* C19: a timestamp is fresh exactly when it is at most 300 seconds from
\* now, on either side; a request with both headers and an integer
\* timestamp for a configured provider is answered 401 "webhook timestamp
\* outside allowed window" exactly when its timestamp is not: now - 300 and
\* now + 300 pass, now - 301 and now + 301 do not.
C19_FreshnessWindow ==
    /\ \A ts \in GateTimestamps(now) : Fresh(ts, now) <=> Abs(now - ts) <= 300
    /\ Fresh(now - 300, now) /\ Fresh(now + 300, now)
    /\ ~Fresh(now - 301, now) /\ ~Fresh(now + 301, now)
    /\ \A request \in Requests(now) :
          (/\ get_secret_candidates(request.provider, request.key_id) # <<>>
           /\ request.has_timestamp /\ request.has_signature /\ request.timestamp_is_int) =>
              LET out == webhook_receiver(DB, windows, request, now)
              IN  (/\ out.status_code = 401
                   /\ out.detail = "webhook timestamp outside allowed window")
                     <=> Abs(now - request.timestamp) > 300

\* C19 witness: two events are stored that arrived at the same moment, one
\* stamped 300 seconds in the future, one 300 seconds in the past.
C19_Witness ==
    \E e1, e2 \in DOMAIN webhook_events :
        /\ webhook_events[e1].signature_timestamp = now + 300
        /\ webhook_events[e2].signature_timestamp = now - 300

\* The candidates the configuration stands for: none for a provider it does
\* not list, the secret of a provider in simple mode, and for a provider
\* in rotation mode the secret of the key id if it names one, the current
\* secret, the previous ones in order, each at its first occurrence.
ConfiguredCandidates(raw, provider, key_id) ==
    LET cfg == IF raw.set THEN raw.value ELSE DEFAULT_WEBHOOK_SECRETS
    IN  IF provider \notin DOMAIN cfg THEN <<>>
        ELSE IF cfg[provider].type = "str" THEN <<cfg[provider].value>>
        ELSE Deduped((IF key_id # NoKeyId /\ key_id \in DOMAIN cfg[provider].keys
                      THEN <<cfg[provider].keys[key_id]>> ELSE <<>>)
                     \o <<cfg[provider].current>> \o cfg[provider].previous, {})

\* C20 (as claimed): the candidates of every provider and key id are those
\* the configuration loaded at start-up stands for.
C20_CandidatesFollowConfiguration ==
    \A provider \in Providers, key_id \in KeyIds :
        get_secret_candidates(provider, key_id)
            = ConfiguredCandidates(env.WEBHOOK_SECRETS_JSON, provider, key_id)

SubscriptionStatuses == {"pending_activation", "active", "past_due", "canceled", "expired"}

\* The dates around the end of the grace period when the clock reads t, and
\* no date.
GraceDates(t) ==
    {None} \cup {x \in {t - 86400 - 1, t - 86400, t - 86400 + 1, t} : x >= 0}

\* The sweep run on a database value at time t cancels the subscriptions
\* that are past_due with a past_due_since at least 24 hours old, reports
\* them, and leaves every other row of every table as it is.
GraceSweepCancelsExactly(db, t) ==
    LET r == enforce_grace_period(db, t)
        due == {s \in DOMAIN db.subscriptions :
                   /\ db.subscriptions[s].status = "past_due"
                   /\ db.subscriptions[s].past_due_since # None
                   /\ db.subscriptions[s].past_due_since <= t - 86400}
    IN  /\ r.raised = ""
        /\ Range(r.ret) = due
        /\ Len(r.ret) = Cardinality(due)
        /\ DOMAIN r.db.subscriptions = DOMAIN db.subscriptions
        /\ \A s \in DOMAIN db.subscriptions :
              r.db.subscriptions[s] =
                  IF s \in due
                  THEN [db.subscriptions[s] EXCEPT !.status = "canceled", !.canceled_at = t,
                                                   !.access_revoked = TRUE]
                  ELSE db.subscriptions[s]
        /\ r.db.customers = db.customers
        /\ r.db.payments = db.payments
        /\ r.db.webhook_events = db.webhook_events
        /\ r.db.METRICS = db.METRICS

\* C21: the grace sweep cancels exactly the subscriptions that are past_due
\* with past_due_since set and not later than now - 24h (canceled,
\* canceled_at = now, access revoked) and leaves every other one unchanged:
\* in every reachable state, and with any subscription of it put in any
\* status with no past_due_since or one around the end of the grace period.
C21_GraceSweep ==
    /\ GraceSweepCancelsExactly(DB, now)
    /\ \A s \in DOMAIN subscriptions, status \in SubscriptionStatuses, since \in GraceDates(now) :
          GraceSweepCancelsExactly(
              [DB EXCEPT !.subscriptions[s].status = status,
                         !.subscriptions[s].past_due_since = since], now)

\* C21 witness: a subscription that went past_due exactly 24 hours ago was
\* canceled by the sweep now.
C21_Witness ==
    \E s \in DOMAIN subscriptions :
        /\ subscriptions[s].status = "canceled"
        /\ subscriptions[s].canceled_at = now
        /\ subscriptions[s].access_revoked
        /\ subscriptions[s].past_due_since = now - 86400
        /\ ~subscriptions[s].cancel_at_period_end

\* The period ends around the present when the clock reads t.
PeriodDates(t) == {x \in {t - 1, t, t + 1} : x >= 0}

\* The sweep run on a database value at time t changes the subscriptions
\* that are active with a period end not later than t: canceled where
\* cancel_at_period_end is set, expired where it is not; it reports them and
\* leaves every other row of every table as it is.
ExpireSweepChangesExactly(db, t) ==
    LET r == expire_subscriptions(db, t)
        due == {s \in DOMAIN db.subscriptions :
                   /\ db.subscriptions[s].status = "active"
                   /\ db.subscriptions[s].current_period_end <= t}
    IN  /\ r.raised = ""
        /\ Range(r.ret.canceled_ids) = {s \in due : db.subscriptions[s].cancel_at_period_end}
        /\ Range(r.ret.expired_ids) = {s \in due : ~db.subscriptions[s].cancel_at_period_end}
        /\ DOMAIN r.db.subscriptions = DOMAIN db.subscriptions
        /\ \A s \in DOMAIN db.subscriptions :
              r.db.subscriptions[s] =
                  IF s \notin due THEN db.subscriptions[s]
                  ELSE IF db.subscriptions[s].cancel_at_period_end
                  THEN [db.subscriptions[s] EXCEPT !.status = "canceled", !.canceled_at = t,
                                                   !.access_revoked = TRUE]
                  ELSE [db.subscriptions[s] EXCEPT !.status = "expired", !.expired_at = t]
        /\ r.db.customers = db.customers
        /\ r.db.payments = db.payments
        /\ r.db.webhook_events = db.webhook_events
        /\ r.db.METRICS = db.METRICS

\* C22: the expire sweep changes exactly the subscriptions that are active
\* with current_period_end <= now, to canceled (canceled_at = now, access
\* revoked) where cancel_at_period_end is set and to expired (expired_at =
\* now) where it is not, and leaves every other one unchanged: in every
\* reachable state, and with any subscription of it put in any status with
\* a period end around the present and either value of the flag.
C22_ExpireSweep ==
    /\ ExpireSweepChangesExactly(DB, now)
    /\ \A s \in DOMAIN subscriptions, status \in SubscriptionStatuses,
          period_end \in PeriodDates(now), flag \in BOOLEAN :
          ExpireSweepChangesExactly(
              [DB EXCEPT !.subscriptions[s].status = status,
                         !.subscriptions[s].current_period_end = period_end,
                         !.subscriptions[s].cancel_at_period_end = flag], now)

\* C22 witness: an active subscription flagged cancel_at_period_end whose
\* period had ended was canceled by the sweep now; it was never past_due.
C22_Witness ==
    \E s \in DOMAIN subscriptions :
        /\ subscriptions[s].status = "canceled"
        /\ subscriptions[s].cancel_at_period_end
        /\ subscriptions[s].canceled_at = now
        /\ subscriptions[s].access_revoked
        /\ subscriptions[s].past_due_since = None
        /\ subscriptions[s].current_period_end <= now
        /\ Len(payments) = 1

\* The deliveries of the domain that carry the timestamp and the signature
\* stored with a row that is failed.
FailedRedeliveries(t) ==
    {d \in Deliveries(t) :
        /\ ExistingRow(d) # 0
        /\ Matches(d, ExistingRow(d))
        /\ webhook_events[ExistingRow(d)].processing_status = "failed"}

\* C23 (as claimed): a matching re-delivery of a failed event that succeeds
\* leaves the event processed.
C23_FailedRedeliveryEndsProcessed ==
    \A d \in FailedRedeliveries(now) :
        LET r == Outcome(DB, d)
        IN  r.raised = "" => r.db.webhook_events[r.ret].processing_status = "processed"

\* C23 (amended): a matching re-delivery of a failed event dispatches it at
\* once, whatever its next_retry_at and needs_attention; when the dispatch
\* returns, the row is committed processed, or ignored when no handler is
\* registered for its type, with next_retry_at, needs_attention and
\* error_message cleared, attempt_count as it was and the effects of the
\* handler; when it raises, the error is raised again and the row is
\* committed failed with one more attempt and the backoff of that attempt,
\* and nothing else changes.
C23_FailedRedeliveryRedispatches ==
    \A d \in FailedRedeliveries(now) :
        LET e == ExistingRow(d)
            r == Outcome(DB, d)
            disp == dispatch_event(DB, e, now)
            row == r.db.webhook_events[e]
        IN  /\ r.ret = e
            /\ r.raised = disp.raised
            /\ Len(r.db.webhook_events) = Len(webhook_events)
            /\ \A x \in DOMAIN webhook_events : x # e => r.db.webhook_events[x] = webhook_events[x]
            /\ r.db.customers = customers
            /\ r.raised = "" =>
                  /\ row.processing_status =
                        IF row.event_type \in {"payment.succeeded", "invoice.payment_failed"}
                        THEN "processed" ELSE "ignored"
                  /\ row.next_retry_at = None
                  /\ row.needs_attention = FALSE
                  /\ row.error_message = NoMessage
                  /\ row.attempt_count = webhook_events[e].attempt_count
                  /\ r.db.subscriptions = disp.db.subscriptions
                  /\ r.db.payments = disp.db.payments
            /\ r.raised # "" =>
                  /\ r.msg = disp.msg
                  /\ MarkedFailed(r.db, e, webhook_events[e].attempt_count, disp.msg, now)
                  /\ r.db.subscriptions = subscriptions
                  /\ r.db.payments = payments
                  /\ r.db.METRICS = [METRICS EXCEPT !["webhook_failed"] = @ + 1]

\* C23 witness: an event failed at its first delivery and at its identical
\* re-delivery (three attempts, flagged, retry due in 900 seconds); its
\* subscription was created and the third identical delivery, at the same
\* moment, applied it: processed, cleared, paid, and counted by no counter
\* but webhook_failed.
C23_Witness ==
    \E e \in DOMAIN webhook_events :
        /\ webhook_events[e].processing_status = "processed"
        /\ webhook_events[e].attempt_count = 3
        /\ webhook_events[e].next_retry_at = None
        /\ ~webhook_events[e].needs_attention
        /\ webhook_events[e].error_message = NoMessage
        /\ webhook_events[e].signature_timestamp = now
        /\ METRICS = [ZeroMetrics EXCEPT !["webhook_failed"] = 2]
        /\ Len(payments) = 1
        /\ payments[1].provider_payment_id = webhook_events[e].event_id

\* A step is the commit of a handler.
HandlerCommits(r) == requests[r].pc = "commit" /\ requests'[r].pc = "done"

\* C24 (as claimed): with the handlers of different events of a
\* subscription in flight together, no commit of a handler lowers the
\* subscription's current_period_end.
C24_ConcurrentHandlersKeepPeriodEnd ==
    [][\A r \in DOMAIN requests :
          HandlerCommits(r) =>
              \A s \in DOMAIN subscriptions :
                  subscriptions'[s].current_period_end >= subscriptions[s].current_period_end]_vars

\* A handler that commits with the subscriptions still as it read them does
\* not lower a current_period_end.
SerialHandlersKeepPeriodEnd ==
    [][\A r \in DOMAIN requests :
          (HandlerCommits(r) /\ requests[r].seen.subscriptions = subscriptions) =>
              \A s \in DOMAIN subscriptions :
                  subscriptions'[s].current_period_end >= subscriptions[s].current_period_end]_vars

\* C25 (as claimed): an entry of a window is dropped only when it is older
\* than now - 60: a request that reaches the rate limit is answered 429
\* exactly when the entries of its window not older than now - 60, the one
\* admitted exactly 60 seconds ago among them, are as many as the cap.
C25_EntryCountsAtSixtySeconds ==
    \A request \in ArrivingRequests(now) :
        LET v == validate_webhook_signature(windows, request, now)
            NotOlder(x) == x >= now - 60
            counted == SelectSeq(windows[<<request.provider, request.client_ip>>], NotOlder)
        IN  ReachesRateLimit(request, now) =>
                ((~v.ok /\ v.status_code = 429)
                    <=> Len(counted) >= env.WEBHOOK_RATE_LIMIT_PER_MINUTE)

\* The requests admitted for a key during the 60 seconds that end at t (t -
\* 60 left out, t included).
AdmittedWithin(k, t) ==
    {r \in DOMAIN requests :
        /\ <<requests[r].request.provider, requests[r].request.client_ip>> = k
        /\ requests[r].arrived > t - 60}

\* A step that admits a request made the check and the append: the window
\* of its key, trimmed, was below the cap and now ends with the present.
CheckedAndAppended ==
    \A r \in DOMAIN requests' \ DOMAIN requests :
        LET k == <<requests'[r].request.provider, requests'[r].request.client_ip>>
            kept == Kept(requests'[r].request, now)
        IN  /\ Len(kept) < env.WEBHOOK_RATE_LIMIT_PER_MINUTE
            /\ windows'[k] = Append(kept, now)
            /\ requests'[r].arrived = now

\* C28: with requests in flight together in one process, the requests
\* admitted for a key within 60 seconds, and the entries of its window, are
\* never more than the cap, whatever the order in which they arrive and go
\* on after their await; the check and the append are made in one step.
C28_AdmittedWithinCap ==
    /\ [](\A k \in DOMAIN windows :
             /\ Cardinality(AdmittedWithin(k, now)) <= env.WEBHOOK_RATE_LIMIT_PER_MINUTE
             /\ Len(windows[k]) <= env.WEBHOOK_RATE_LIMIT_PER_MINUTE)
    /\ [][CheckedAndAppended]_vars

\* C28 witness: as many requests of one key as the cap wait for their body
\* at the same time, and a further one was answered 429.
C28_Witness ==
    /\ response = [status_code |-> 429, detail |-> "rate limit exceeded"]
    /\ \E k \in DOMAIN windows :
          /\ Cardinality(AdmittedWithin(k, now)) = env.WEBHOOK_RATE_LIMIT_PER_MINUTE
          /\ \A r \in AdmittedWithin(k, now) : requests[r].pc = "body"

\* The requests of the order of the checks: the first event for either
\* provider from either address, with a timestamp inside or outside the
\* window, signed with the default secret of test or a wrong one, with any
\* of: the signature header absent, a timestamp that is no integer, a body
\* that is not UTF-8.
OrderRequests(t) ==
    {[Signed(p, NoKeyId, ts, s, GateBody1, ip)
        EXCEPT !.has_signature = hs, !.timestamp_is_int = ti, !.decodes = d] :
        p \in Providers, ts \in {t, t - WEBHOOK_MAX_SKEW_SECONDS - 1},
        s \in {"test_secret", "wrong"}, ip \in ClientIps,
        hs \in BOOLEAN, ti \in BOOLEAN, d \in BOOLEAN}

\* The checks in the order claimed, each with its rejection.
GateChecks ==
    <<[status_code |-> 401, detail |-> "unknown webhook provider"],
      [status_code |-> 401, detail |-> "missing webhook signature headers"],
      [status_code |-> 401, detail |-> "invalid webhook timestamp"],
      [status_code |-> 401, detail |-> "webhook timestamp outside allowed window"],
      [status_code |-> 403, detail |-> "ip not allowed"],
      [status_code |-> 429, detail |-> "rate limit exceeded"],
      [status_code |-> 403, detail |-> "invalid webhook signature"],
      [status_code |-> 400, detail |-> "invalid webhook body encoding"]>>

\* The checks a request fails, each taken by itself.
FailedChecks(request, t) ==
    LET candidates == get_secret_candidates(request.provider, request.key_id)
    IN  {i \in DOMAIN GateChecks :
            \/ i = 1 /\ candidates = <<>>
            \/ i = 2 /\ (~request.has_timestamp \/ ~request.has_signature)
            \/ i = 3 /\ ~request.timestamp_is_int
            \/ i = 4 /\ Abs(t - request.timestamp) > 300
            \/ i = 5 /\ env.WEBHOOK_IP_ALLOWLIST # {}
                     /\ request.client_ip \notin env.WEBHOOK_IP_ALLOWLIST
            \/ i = 6 /\ Len(Kept(request, t)) >= env.WEBHOOK_RATE_LIMIT_PER_MINUTE
            \/ i = 7 /\ SignedWith(request) \notin Range(candidates)
            \/ i = 8 /\ ~request.decodes}

\* C26: the rejection of a request is that of the first check it fails in
\* the order secret resolution, headers, timestamp parse, freshness,
\* allowlist, rate limit, signature, body decoding, whatever later checks
\* it fails as well; a request that fails none is passed on.  A request
\* whose first failure comes before the rate limit leaves every window as
\* it was, one rejected by the rate limit is not counted, and one whose
\* first failure is the signature or the decoding is counted in its window,
\* at every moment of every run.
C26_FirstFailingCheckDecides ==
    [](\A request \in OrderRequests(now) :
           LET v == validate_webhook_signature(windows, request, now)
               failed == FailedChecks(request, now)
               first == CHOOSE i \in failed : \A j \in failed : i <= j
               key == <<request.provider, request.client_ip>>
           IN  /\ v.ok <=> failed = {}
               /\ failed = {} => v.windows[key] = Append(Kept(request, now), now)
               /\ failed # {} =>
                     /\ v.status_code = GateChecks[first].status_code
                     /\ v.detail = GateChecks[first].detail
                     /\ first < 6 => v.windows = windows
                     /\ first = 6 => v.windows[key] = Kept(request, now)
                     /\ first > 6 => v.windows[key] = Append(Kept(request, now), now))

\* C26 witness: every request so far was rejected, the window of a key is
\* full of requests rejected after the rate limit, and the last request for
\* it was rejected by the rate limit.
C26_Witness ==
    /\ response = [status_code |-> 429, detail |-> "rate limit exceeded"]
    /\ webhook_events = <<>>
    /\ \E k \in DOMAIN windows :
          /\ Len(windows[k]) = env.WEBHOOK_RATE_LIMIT_PER_MINUTE
          /\ \A i \in DOMAIN windows[k] : windows[k][i] = now

\* The first deliveries of typed events for a subscription of their customer
\* whose period end, parsed when the clock reads t, is the stored one.
EqualPeriodDeliveries(t) ==
    {d \in Deliveries(t) :
        /\ ExistingRow(d) = 0
        /\ d.body.event_type \in {"payment.succeeded", "invoice.payment_failed"}
        /\ ~HandlerMustRaise(d.body)
        /\ \E s \in DOMAIN subscriptions :
              /\ subscriptions[s].provider_subscription_id
                    = d.body.payload_json.provider_subscription_id
              /\ parse_period_end(d.body.payload_json.current_period_end, t)
                    = subscriptions[s].current_period_end}

\* C27: an event of either type whose period end equals the stored
\* current_period_end is applied: the delivery returns, the event is stored
\* processed without the stale mark, one Payment row is appended for it
\* (approved or refused), and the subscription is advanced: by
\* payment.succeeded to active from pending_activation and past_due, with
\* its dates and access_revoked cleared and the period end kept; by
\* invoice.payment_failed to past_due since now from active.
C27_EqualPeriodEndIsApplied ==
    \A d \in EqualPeriodDeliveries(now) :
        LET r == Outcome(DB, d)
            e == Len(r.db.webhook_events)
            s == get_subscription_by_provider_id(DB,
                     d.body.payload_json.provider_subscription_id)
            old == subscriptions[s]
            new == r.db.subscriptions[s]
            succeeded == d.body.event_type = "payment.succeeded"
        IN  /\ r.raised = ""
            /\ e = Len(webhook_events) + 1
            /\ r.db.webhook_events[e].event_id = d.body.event_id
            /\ r.db.webhook_events[e].processing_status = "processed"
            /\ r.db.webhook_events[e].error_message = NoMessage
            /\ Len(r.db.payments) = Len(payments) + 1
            /\ LET payment == r.db.payments[Len(r.db.payments)]
               IN  /\ payment.provider_payment_id = d.body.event_id
                   /\ payment.subscription_id = s
                   /\ payment.status = IF succeeded THEN "approved" ELSE "refused"
            /\ new.current_period_end = old.current_period_end
            /\ succeeded =>
                  /\ new.status = IF old.status \in {"pending_activation", "past_due"}
                                  THEN "active" ELSE old.status
                  /\ new.past_due_since = None /\ new.canceled_at = None
                  /\ new.expired_at = None /\ ~new.access_revoked
            /\ ~succeeded =>
                  IF old.status = "active"
                  THEN new.status = "past_due" /\ new.past_due_since = now
                  ELSE new = old

\* C27 witness: after a payment carried the period end 300 to a
\* subscription, a failed invoice with the same period end was applied:
\* past_due, a refused Payment row after the approved one, both events
\* processed and neither marked stale.
C27_Witness ==
    /\ Len(payments) = 2 /\ Len(webhook_events) = 2
    /\ payments[1].status = "approved" /\ payments[2].status = "refused"
    /\ \A e \in DOMAIN webhook_events :
          /\ webhook_events[e].payload_raw.payload_json.current_period_end = 300
          /\ webhook_events[e].processing_status = "processed"
          /\ webhook_events[e].error_message = NoMessage
    /\ \E s \in DOMAIN subscriptions :
          /\ subscriptions[s].status = "past_due"
          /\ subscriptions[s].current_period_end = 300

\* The row is one the retry sweep takes once it is due.
RetryCandidate(row) == row.processing_status = "failed" /\ ~row.needs_attention

\* A failed row was marked at least once after its insert, and a candidate
\* exactly once.
FailedRowsCounted ==
    \A e \in DOMAIN webhook_events :
        /\ webhook_events[e].processing_status = "failed" =>
              webhook_events[e].attempt_count >= 2
        /\ RetryCandidate(webhook_events[e]) => webhook_events[e].attempt_count < 3

\* No row is removed and no attempt_count decreases; a row that a step makes
\* a candidate, or leaves one while changing it, had attempt_count 1 before.
CandidateOnlyFromFirstFailure ==
    /\ Len(webhook_events') >= Len(webhook_events)
    /\ \A e \in DOMAIN webhook_events :
          /\ webhook_events'[e].attempt_count >= webhook_events[e].attempt_count
          /\ (RetryCandidate(webhook_events'[e]) /\ webhook_events'[e] # webhook_events[e]) =>
                webhook_events[e].attempt_count = 1

\* The rows a sweep takes were candidates with attempt_count below 3, and
\* each ends in one of the given statuses with the same attempt_count, or
\* failed and flagged with attempt_count 3.
SweepLeaves(statuses) ==
    \A limit \in RetryLimits :
        LET r == retry_failed_webhooks(DB, limit, now)
        IN  \A e \in Range(r.ret.processed_ids) \cup Range(r.ret.failed_ids) :
                LET row == r.db.webhook_events[e]
                IN  /\ RetryCandidate(webhook_events[e])
                    /\ webhook_events[e].attempt_count < 3
                    /\ \/ /\ row.processing_status \in statuses
                          /\ row.attempt_count = webhook_events[e].attempt_count
                       \/ /\ row.processing_status = "failed"
                          /\ row.attempt_count = 3
                          /\ row.needs_attention

\* C29 (as claimed): attempt_count never decreases, a failed event has
\* attempt_count >= 2, the sweep takes only failed events with attempt_count
\* below 3, and a sweep dispatch leaves the event processed or failed with
\* attempt_count 3; so no event is dispatched by the sweep twice.
C29_SweepLeavesProcessedOrFlagged ==
    /\ [](FailedRowsCounted /\ SweepLeaves({"processed"}))
    /\ [][CandidateOnlyFromFirstFailure]_vars

\* C29 (amended): the same, with a sweep dispatch leaving the event
\* processed, ignored (an event type without handler) or failed with
\* attempt_count 3.  A row the sweep has dispatched is then no candidate and
\* has attempt_count >= 2, and no step makes such a row a candidate again:
\* the sweep dispatches no event twice.
C29_SweepDispatchesOnce ==
    /\ [](FailedRowsCounted /\ SweepLeaves({"processed", "ignored"}))
    /\ [][CandidateOnlyFromFirstFailure]_vars

\* C29 witness: an event failed on delivery, a sweep a day later dispatched
\* it and it failed again; after another day it is long due, flagged with
\* attempt_count 3, and no sweep takes it.
C29_Witness ==
    /\ Len(webhook_events) = 1
    /\ webhook_events[1].processing_status = "failed"
    /\ webhook_events[1].attempt_count = 3
    /\ webhook_events[1].needs_attention
    /\ webhook_events[1].error_message = "provider_customer_id not found"
    /\ webhook_events[1].next_retry_at = 86400 + 900
    /\ webhook_events[1].next_retry_at < now
    /\ retry_failed_webhooks(DB, DEFAULT_RETRY_LIMIT, now).ret.checked = 0

\* C30: with the sweep run repeatedly (limit 1 or more) while time
\* advances, every row that is failed and not flagged sooner or later is
\* processed or ignored, or failed and flagged: none stays a retry candidate
\* for ever, whatever the limit and whatever rows come before it.
C30_CandidatesLeave ==
    \A e \in 1..Len(EventIds) :
        (e \in DOMAIN webhook_events /\ RetryCandidate(webhook_events[e]))
            ~> (/\ e \in DOMAIN webhook_events
                /\ \/ webhook_events[e].processing_status \in {"processed", "ignored"}
                   \/ /\ webhook_events[e].processing_status = "failed"
                      /\ webhook_events[e].needs_attention)

\* C30 witness: two rows failed on delivery; sweeps took both, and the second
\* was taken after the first: one is flagged with attempt_count 3, the other
\* was processed by its sweep.
C30_Witness ==
    /\ Len(webhook_events) = 2
    /\ now > 0
    /\ \E e, x \in DOMAIN webhook_events :
          /\ webhook_events[e].processing_status = "failed"
          /\ webhook_events[e].needs_attention
          /\ webhook_events[e].attempt_count = 3
          /\ webhook_events[x].processing_status = "processed"
          /\ webhook_events[x].attempt_count = 2
          /\ webhook_events[x].next_retry_at = None

\* No row of a database value is in status received.
NoneReceived(db) ==
    \A e \in DOMAIN db.webhook_events :
        db.webhook_events[e].processing_status # "received"

\* A step that commits a new row is the commit of a request that had flushed
\* its insert, and the row carries the outcome of its dispatch.
InsertCommittedWithOutcome ==
    Len(webhook_events') > Len(webhook_events) =>
        /\ Len(webhook_events') = Len(webhook_events) + 1
        /\ webhook_events'[Len(webhook_events')].processing_status
              \in {"processed", "ignored", "failed"}
        /\ \E r \in DOMAIN requests :
              /\ requests[r].pc = "dispatch" /\ requests'[r].pc = "done"
              /\ requests'[r].ret = Len(webhook_events')
              /\ Key(requests[r]) = <<webhook_events'[Len(webhook_events')].provider,
                                      webhook_events'[Len(webhook_events')].event_id>>

\* C31: no committed row is in status received, with deliveries in flight
\* together and requests that end after their flush and before their
\* commit; neither does any delivery of the domain (events with and without
\* handler, handlers that return and that raise, re-deliveries) commit one.
\* A row is committed with the outcome of its dispatch, by the request that
\* inserted it; every row is the row of a request that ran to its end, so a
\* request that ended before its commit has left none.
C31_NoCommittedRowReceived ==
    /\ [](/\ NoneReceived(DB)
          /\ \A d \in Deliveries(now) : NoneReceived(Outcome(DB, d).db)
          /\ \A e \in DOMAIN webhook_events :
                \E r \in DOMAIN requests : requests[r].pc = "done" /\ requests[r].ret = e)
    /\ [][InsertCommittedWithOutcome]_vars

\* C31 witness: a first delivery flushed its insert and ended before the
\* commit; a second delivery of the same event then found no row, inserted
\* and committed it processed: one row, one Payment row, both of the second.
C31_Witness ==
    /\ Len(requests) = 2
    /\ requests[1].pc = "gone" /\ requests[2].pc = "done"
    /\ Key(requests[1]) = Key(requests[2])
    /\ ~requests[2].raced /\ requests[2].raised = ""
    /\ Len(webhook_events) = 1 /\ requests[2].ret = 1
    /\ webhook_events[1].processing_status = "processed"
    /\ webhook_events[1].attempt_count = 1
    /\ Len(payments) = 1

\* The deliveries of a failed invoice.
FailedInvoiceDeliveries(t) ==
    {[provider |-> "test", body |-> Body(id, "invoice.payment_failed", pl), ts |-> ts] :
        id \in Range(InvoiceEventIds), pl \in Payloads, ts \in Timestamps(t)}

\* The first delivery d is one its handler applies to subscription s: the
\* payload names a customer and the subscription s of that customer, and
\* its period end is not before the stored one.
AppliesTo(d, s) ==
    LET pl == d.body.payload_json
    IN  /\ ExistingRow(d) = 0
        /\ ~HandlerMustRaise(d.body)
        /\ s = get_subscription_by_provider_id(DB, pl.provider_subscription_id)
        /\ ~(parse_period_end(pl.current_period_end, now) < subscriptions[s].current_period_end)

\* A step that adds Payment rows, all of them refused, leaves every
\* subscription that was past_due with the past_due_since it had, so the
\* time at which the grace period has elapsed stays where it was.
RefusedKeepsDeadline ==
    (/\ Len(payments') > Len(payments)
     /\ \A p \in (Len(payments) + 1)..Len(payments') : payments'[p].status = "refused")
    => \A s \in DOMAIN subscriptions :
          subscriptions[s].status = "past_due" =>
              /\ subscriptions'[s].status = "past_due"
              /\ subscriptions'[s].past_due_since = subscriptions[s].past_due_since
              /\ \A t \in {now', now' + GRACE_SECONDS} :
                    GraceElapsed(subscriptions'[s], t) = GraceElapsed(subscriptions[s], t)

\* C32: a delivery of invoice.payment_failed, whatever becomes of it, leaves
\* every subscription that is not active as it was (status and
\* past_due_since among the rest); a first delivery that its handler applies
\* to such a subscription returns without error, is stored processed and
\* adds exactly one Payment row, refused, of that subscription.  Steps that
\* add refused payments only never move the past_due_since of a past_due
\* subscription.
C32_FailureOfInactiveKeepsDate ==
    /\ [](\A d \in FailedInvoiceDeliveries(now) :
            LET r == Outcome(DB, d)
            IN  \A s \in DOMAIN subscriptions :
                  subscriptions[s].status # "active" =>
                     /\ r.db.subscriptions[s] = subscriptions[s]
                     /\ AppliesTo(d, s) =>
                           /\ r.raised = ""
                           /\ r.db.webhook_events[r.ret].processing_status = "processed"
                           /\ Len(r.db.payments) = Len(payments) + 1
                           /\ SubSeq(r.db.payments, 1, Len(payments)) = payments
                           /\ r.db.payments[Len(r.db.payments)].status = "refused"
                           /\ r.db.payments[Len(r.db.payments)].subscription_id = s
                           /\ r.db.payments[Len(r.db.payments)].provider_payment_id
                                 = d.body.event_id)
    /\ [][RefusedKeepsDeadline]_vars

\* C32 witness: a subscription was paid, an invoice failed, a day later a
\* second one failed: two refused Payment rows, both events processed, and
\* past_due_since is still the time of the first, a day before now.
C32_Witness ==
    \E s \in DOMAIN subscriptions :
        /\ subscriptions[s].status = "past_due"
        /\ Len(webhook_events) = 3 /\ Len(payments) = 3
        /\ payments[1].status = "approved" /\ payments[1].subscription_id = s
        /\ \A e \in 2..3 :
              /\ webhook_events[e].event_type = "invoice.payment_failed"
              /\ webhook_events[e].processing_status = "processed"
              /\ payments[e].status = "refused" /\ payments[e].subscription_id = s
        /\ subscriptions[s].past_due_since = webhook_events[2].signature_timestamp
        /\ webhook_events[3].signature_timestamp
              = subscriptions[s].past_due_since + GRACE_SECONDS
        /\ now = webhook_events[3].signature_timestamp
        /\ GraceElapsed(subscriptions[s], now)


====
